---- MODULE Spec2Model ----
(***************************************************************************)
(* Model of the urban-planning simulation core of blank_slate:             *)
(*   simulation/metrics.py            MetricsAggregator, final document     *)
(*   simulation/experiment_runner.py  scenario workers and run_experiment   *)
(*   simulation/brain_server.py       the /decide endpoint                  *)
(* Real numbers (seconds, amounts, series values) are exact rationals      *)
(* <<n, d>> with d > 0 in lowest terms.                                     *)
(***************************************************************************)
EXTENDS Integers, Sequences, FiniteSets, TLC

VARIABLES
    m,          \* a MetricsAggregator driven through its public API
    nev,        \* number of record_* calls made on m
    cfg,        \* the experiment's inputs: scenario paths, seed, agent_count, duration_s
    rng,        \* state of the process-wide `random` generator, per execution
    wk,         \* scenario workers: worker id -> thread state of run_single_scenario
    rn,         \* the run_experiment thread: collection loop, composition, write
    fs,         \* analytics.json on disk and what a concurrent reader last saw
    dc,         \* the /decide request being served by the brain server
    ed,         \* the asset directories and the apply_scenario_to_assets call on them
    fn,         \* a call of a function (snap_to_walkable, astar, _bin_idx): inputs and result
    gr,         \* the physics grids (walkable, cost) while they are built and edited
    lv,         \* the live publisher: the decision logs and run_live's aggregators
    pm,         \* two aggregators that are fed the same events in two orders
    nd,         \* an agent's needs map as seed_needs and decay_and_reinforce return it
    srv         \* the brain server's RUNS registry, run directories and open requests

toolVars == <<ed, fn, gr, lv, pm, nd, srv>>
vars == <<m, nev, cfg, rng, wk, rn, fs, dc, ed, fn, gr, lv, pm, nd, srv>>

\* an optional value: <<>> is None, <<x>> is x
None == <<>>
Some(x) == <<x>>

\* the parts a specification does not run
IdleTools ==
    ed = <<>> /\ fn = <<>> /\ gr = <<>> /\ lv = <<>> /\ pm = <<>> /\ nd = <<>> /\ srv = <<>>

\* ------------------------------------------------------------------ bounds
MaxBins == 2
MaxEvents == 3
MaxAgentArg == 2

\* ------------------------------------------------------------- rationals
Abs(x) == IF x < 0 THEN -x ELSE x

RECURSIVE GCD(_, _)
GCD(a, b) == IF b = 0 THEN a ELSE GCD(b, a % b)

Rat(n, d) ==
    LET g == GCD(Abs(n), Abs(d))
        s == IF d < 0 THEN -1 ELSE 1
    IN  <<(s * n) \div g, (s * d) \div g>>

R(n) == <<n, 1>>
RAdd(a, b) == Rat(a[1] * b[2] + b[1] * a[2], a[2] * b[2])
RSub(a, b) == Rat(a[1] * b[2] - b[1] * a[2], a[2] * b[2])
\* products are cross-reduced first so that intermediate values stay small
RMul(a, b) ==
    LET g1 == GCD(Abs(a[1]), b[2])
        g2 == GCD(Abs(b[1]), a[2])
    IN  IF a[1] = 0 \/ b[1] = 0 THEN <<0, 1>>
        ELSE Rat((a[1] \div g1) * (b[1] \div g2), (a[2] \div g2) * (b[2] \div g1))
RDiv(a, b) == RMul(a, Rat(b[2], b[1]))
RLt(a, b) == a[1] * b[2] < b[1] * a[2]
RLe(a, b) == a[1] * b[2] <= b[1] * a[2]
RMax(a, b) == IF RLt(a, b) THEN b ELSE a
RMin(a, b) == IF RLt(b, a) THEN b ELSE a
RFloor(a) == a[1] \div a[2]

RECURSIVE SumTo(_, _)
\* sum of f[0] .. f[n-1]
SumTo(f, n) == IF n = 0 THEN 0 ELSE f[n - 1] + SumTo(f, n - 1)

RECURSIVE RSumSeq(_)
RSumSeq(s) == IF s = <<>> THEN R(0) ELSE RAdd(Head(s), RSumSeq(Tail(s)))

\* integer square root: the largest r with r*r <= x
ISqrt(x) == CHOOSE r \in 0..(x + 1) : r * r <= x /\ (r + 1) * (r + 1) > x

\* ---------------------------------------------------------------- floats
\* A float is a rational with at most MantissaBits significant binary digits
\* (53 in the interpreter's binary64); every float operation rounds its exact
\* result to the nearest float, ties to the even mantissa.
MantissaBits == 8

RECURSIVE Pow2(_)
Pow2(k) == IF k = 0 THEN 1 ELSE 2 * Pow2(k - 1)

\* the nearest integer to q >= 0, ties to even
RoundHalfEven(q) ==
    LET f    == RFloor(q)
        frac == RSub(q, R(f))
    IN  IF RLt(<<1, 2>>, frac) \/ (frac = <<1, 2>> /\ f % 2 = 1) THEN f + 1 ELSE f

RECURSIVE FRoundScaled(_, _)
\* q > 0 rounded at the binade it lies in; unit is the weight of the last
\* mantissa digit tried
FRoundScaled(q, unit) ==
    LET mant == RDiv(q, unit)
    IN  IF RLe(R(Pow2(MantissaBits)), mant) THEN FRoundScaled(q, RMul(unit, R(2)))
        ELSE IF RLt(mant, R(Pow2(MantissaBits - 1))) THEN FRoundScaled(q, RDiv(unit, R(2)))
        ELSE RMul(R(RoundHalfEven(mant)), unit)

\* the float nearest to the rational q
FRound(q) ==
    IF q[1] = 0 THEN R(0)
    ELSE IF q[1] < 0 THEN RSub(R(0), FRoundScaled(RSub(R(0), q), R(1)))
    ELSE FRoundScaled(q, R(1))

\* a + b on floats
FAdd(a, b) == FRound(RAdd(a, b))

\* ------------------------------------------------------------ categories
\* the closed POI category set (scenario_models.POIDef.type)
Categories == {"grocery", "pharmacy", "cafe", "restaurant", "transit",
               "education", "health", "retail", "other"}

\* ------------------------------------------------- MetricsAggregator
Zeros(bins) == [i \in 0..(bins - 1) |-> 0]
RZeros(bins) == [i \in 0..(bins - 1) |-> R(0)]
IMax(a, b) == IF a < b THEN b ELSE a
IMin(a, b) == IF b < a THEN b ELSE a

\* MetricsAggregator.__init__(exp_id, env_key, bins, duration_s)
NewAggregator(env_key, bins, duration_s) ==
    LET b == IMax(1, bins)
        d == RMax(R(1), duration_s)
    IN  [ env_key     |-> env_key,
          bins        |-> b,
          duration_s  |-> d,
          bin_w       |-> RDiv(d, R(b)),
          decisions   |-> Zeros(b),
          arrivals    |-> Zeros(b),
          walk_cells  |-> Zeros(b),
          travel_time |-> RZeros(b),
          spend       |-> RZeros(b),
          agent_count |-> 0,
          cat_time    |-> [c \in {} |-> <<R(0), 0>>],
          start_ts    |-> None ]

\* the index without the cap at bins - 1
BinIdxUncapped(a, t_s) == RFloor(RDiv(RMax(R(0), t_s), a.bin_w))

\* _bin_idx: int(floor(max(0.0, t_s) / bin_w)), capped at bins - 1
BinIdx(a, t_s) ==
    LET idx == RFloor(RDiv(RMax(R(0), t_s), a.bin_w))
    IN  IF idx >= a.bins THEN a.bins - 1 ELSE idx

\* start_run(start_ts, agent_count)
StartRun(a, start_ts, agent_count) ==
    [a EXCEPT !.start_ts = Some(start_ts), !.agent_count = IMax(1, agent_count)]

\* an aggregator whose record_decision counts nothing
SkipDecision(a, category, t_s) == a

\* a record_decision that counts an arrival as well
RecordDecisionAsArrival(a, category, t_s) ==
    [a EXCEPT !.decisions[BinIdx(a, t_s)] = @ + 1, !.arrivals[BinIdx(a, t_s)] = @ + 1]

\* record_decision(agent_id, category, t_s)
RecordDecision(a, category, t_s) ==
    [a EXCEPT !.decisions[BinIdx(a, t_s)] = @ + 1]

\* record_arrival(agent_id, category, path_len_cells, travel_time_s, t_s), with
\* Plus for the additions of floats in "+="
RecordArrivalIn(Plus(_, _), a, category, path_len_cells, travel_time_s, t_s) ==
    LET bi   == BinIdx(a, t_s)
        prev == IF category \in DOMAIN a.cat_time THEN a.cat_time[category]
                ELSE <<R(0), 0>>
        upd  == <<Plus(prev[1], travel_time_s), prev[2] + 1>>
    IN  [a EXCEPT !.arrivals[bi]    = @ + 1,
                  !.walk_cells[bi]  = @ + path_len_cells,
                  !.travel_time[bi] = Plus(@, travel_time_s),
                  !.cat_time = [c \in (DOMAIN a.cat_time) \cup {category} |->
                                   IF c = category THEN upd ELSE a.cat_time[c]]]

\* record_purchase(agent_id, category, amount, t_s), with Plus for "+="
RecordPurchaseIn(Plus(_, _), a, category, amount, t_s) ==
    [a EXCEPT !.spend[BinIdx(a, t_s)] = Plus(@, amount)]

\* the two calls where every sum is exact (the values met there are far from
\* the precision of a float)
RecordArrival(a, category, path_len_cells, travel_time_s, t_s) ==
    RecordArrivalIn(RAdd, a, category, path_len_cells, travel_time_s, t_s)
RecordPurchase(a, category, amount, t_s) ==
    RecordPurchaseIn(RAdd, a, category, amount, t_s)

\* _avg_cat_time: category -> s / c for the categories with c > 0
AvgCatTime(a) ==
    [c \in {k \in DOMAIN a.cat_time : a.cat_time[k][2] > 0} |->
        RDiv(a.cat_time[c][1], R(a.cat_time[c][2]))]

RECURSIVE RSumFun(_, _)
RSumFun(f, S) ==
    IF S = {} THEN R(0)
    ELSE LET k == CHOOSE x \in S : TRUE IN RAdd(f[k], RSumFun(f, S \ {k}))

\* 1e-6, the floor of the baseline spend in the cost ratio
EpsDen == 1000000
EPS == <<1, EpsDen>>

\* A series value y is held as the product the code forms it as, <<k, r>> = k * r
\* (k a positive integer, r a rational), because 100 * (b - s) / b leaves the
\* range of the model's integers when b is EPS.
Y(k, r) == <<k, r>>
YIsZero(y) == y[2][1] = 0
YNonNeg(y) == y[2][1] >= 0
\* y <= c, for r of moderate size
YLeInt(y, c) == RLe(RMul(R(y[1]), y[2]), R(c))

\* the walking-distance scale: max(200.0, sum(walk_cells)/float(agent_count or 1) or 200.0)
DistScale(a) ==
    LET n == IF a.agent_count = 0 THEN 1 ELSE a.agent_count
        q == Rat(SumTo(a.walk_cells, a.bins), n)
    IN  RMax(R(200), IF q[1] = 0 THEN R(200) ELSE q)

\* efficiency of bin i: max(0, min(1, successes - penalty)) * 100
Efficiency(a, i) ==
    LET successes == Rat(a.arrivals[i], a.agent_count)
        penalty   == RMul(<<1, 20>>,
                          RDiv(R(a.walk_cells[i]), RMul(R(a.agent_count), DistScale(a))))
    IN  Y(100, RMax(R(0), RMin(R(1), RSub(successes, penalty))))

\* cost of bin i against the baseline's spend: 100 * (b - s) / b, b = max(1e-6, base_spend[i])
CostVsBaseline(a, base_spend, i) ==
    LET b == RMax(EPS, base_spend[i])
        s == a.spend[i]
    IN  Y(100, RDiv(RSub(b, s), b))

\* cost of bin i with no baseline: min(100, sqrt(s + 1) * 10), the root taken to
\* the integer below
CostAlone(a, i) ==
    LET s == a.spend[i]
        x == (100 * (s[1] + s[2])) \div s[2]
    IN  Y(1, R(IF x >= 10000 THEN 100 ELSE ISqrt(x)))

\* time saved in bin i: max(0, avg_b_time - avg_s_time) * 10 when there is a
\* baseline and the bin has arrivals, else 0
TimeSaved(a, baseline, i) ==
    IF baseline # None /\ a.arrivals[i] > 0
    THEN LET avg_s == RDiv(a.travel_time[i], RMax(R(1), R(a.arrivals[i])))
             bt    == AvgCatTime(baseline[1])
             avg_b == IF DOMAIN bt = {} THEN R(0)
                      ELSE RDiv(RSumFun(bt, DOMAIN bt), R(Cardinality(DOMAIN bt)))
         IN  Y(10, RMax(R(0), RSub(avg_b, avg_s)))
    ELSE Y(10, R(0))

\* _series: [{"x": i, "y": v}] in bin order
Series(f, bins) == [j \in 1..bins |-> [x |-> j - 1, y |-> f[j - 1]]]

\* summarize_scenario(baseline), baseline an optional aggregator: the three series,
\* or the exception the call raises
SummarizeScenario(a, baseline) ==
    IF a.agent_count = 0
    THEN [raised |-> "ZeroDivisionError", efficiency |-> <<>>, cost |-> <<>>,
          time_saved |-> <<>>]
    ELSE IF baseline # None /\ baseline[1].bins < a.bins
    THEN [raised |-> "IndexError", efficiency |-> <<>>, cost |-> <<>>,
          time_saved |-> <<>>]
    ELSE [ raised     |-> "",
           efficiency |-> Series([i \in 0..(a.bins - 1) |-> Efficiency(a, i)], a.bins),
           cost       |-> Series([i \in 0..(a.bins - 1) |->
                                    IF baseline # None
                                    THEN CostVsBaseline(a, baseline[1].spend, i)
                                    ELSE CostAlone(a, i)], a.bins),
           time_saved |-> Series([i \in 0..(a.bins - 1) |-> TimeSaved(a, baseline, i)],
                                 a.bins) ]

\* --------------------------------------- the aggregator driven through its API
BinsArgs == 0..MaxBins
DurationArgs == {<<1, 2>>, R(1), R(2)}
TimeArgs == {<<-1, 1>>, R(0), <<1, 2>>, R(1), R(3)}
CatArgs == {"cafe", "grocery"}
PathLenArgs == {10, 50}
TravelArgs == {R(1), R(5)}
AmountArgs == {R(5), <<65, 2>>}

InitAgg ==
    /\ \E bins \in BinsArgs, d \in DurationArgs : m = NewAggregator("env1", bins, d)
    /\ nev = 0

\* the _bin_idx call a record_* call makes: its argument and the index returned
BinIdxCall(a, t_s) == [op |-> "_bin_idx", t_s |-> t_s, idx |-> BinIdx(a, t_s)]

ApiStartRun ==
    /\ \E n \in 0..MaxAgentArg : m' = StartRun(m, 0, n)
    /\ UNCHANGED <<nev, cfg, rng, wk, rn, fs, dc, toolVars>>

ApiRecordDecision ==
    /\ nev < MaxEvents
    /\ \E c \in CatArgs, t \in TimeArgs :
          m' = RecordDecision(m, c, t) /\ fn' = BinIdxCall(m, t)
    /\ nev' = nev + 1
    /\ UNCHANGED <<cfg, rng, wk, rn, fs, dc, ed, gr, lv, pm, nd, srv>>

ApiRecordArrival ==
    /\ nev < MaxEvents
    /\ \E c \in CatArgs, t \in TimeArgs, p \in PathLenArgs, tt \in TravelArgs :
          m' = RecordArrival(m, c, p, tt, t) /\ fn' = BinIdxCall(m, t)
    /\ nev' = nev + 1
    /\ UNCHANGED <<cfg, rng, wk, rn, fs, dc, ed, gr, lv, pm, nd, srv>>

ApiRecordPurchase ==
    /\ nev < MaxEvents
    /\ \E c \in CatArgs, t \in TimeArgs, amt \in AmountArgs :
          m' = RecordPurchase(m, c, amt, t) /\ fn' = BinIdxCall(m, t)
    /\ nev' = nev + 1
    /\ UNCHANGED <<cfg, rng, wk, rn, fs, dc, ed, gr, lv, pm, nd, srv>>

NextAgg == ApiStartRun \/ ApiRecordDecision \/ ApiRecordArrival \/ ApiRecordPurchase

\* ------------------------------------------------- the `random` module
\* The process-wide generator is a deterministic state machine: seed() sets its
\* state, every draw advances it and returns a value in [0, 1).
RngNext(x) == (5 * x + 3) % 16
SeedState(seed) == seed % 16
Random01(x) == Rat(x, 16)

\* random.uniform(a, b) = a + (b - a) * random()
Uniform(a, b, u) == RAdd(a, RMul(RSub(b, a), u))
\* _randbelow(n), taken as floor(n * random())
RandBelow(n, u) == RFloor(RMul(R(n), u))
\* random.randint(a, b)
RandInt(a, b, u) == a + RandBelow(b - a + 1, u)
\* random.choice(seq)
Choice(seq, u) == seq[1 + RandBelow(Len(seq), u)]

RECURSIVE CumWeights(_)
CumWeights(ws) ==
    IF ws = <<>> THEN <<>>
    ELSE LET front == CumWeights(SubSeq(ws, 1, Len(ws) - 1))
         IN  Append(front, IF front = <<>> THEN ws[Len(ws)]
                           ELSE RAdd(front[Len(front)], ws[Len(ws)]))

\* random.choices(population, weights, k=1)[0]: bisect(cum_weights, random() * total, 0, n - 1)
Choices(population, weights, u) ==
    LET cum   == CumWeights(weights)
        n     == Len(population)
        total == cum[n]
        x     == RMul(u, total)
        hits  == {i \in 1..n : i = n \/ RLt(x, cum[i])}
    IN  population[CHOOSE i \in hits : \A j \in hits : i <= j]

\* --------------------------------------------------------- scenario files
\* A file's base name is held as its '_'-separated words, so that
\* startswith('baseline') and 'h001' in base can be evaluated.
Baseline == <<"baseline">>
H001 == <<"society145", "h001", "convenience", "cafe">>
H002 == <<"society145", "h002", "clubhouse">>
H003 == <<"society145", "h003", "market", "square">>
H004 == <<"society145", "h004", "food", "hall">>

StartsWith(base, word) == base[1] = word
Contains(base, word) == \E i \in 1..Len(base) : base[i] = word

\* the scenario documents the files hold (Scenario: id, poi_add, poi_update, tags)
ScenarioFile(path) ==
    CASE path = Baseline ->
           [id |-> "baseline", poi_add |-> <<>>, poi_update |-> <<>>, bias |-> <<>>]
      [] path = H001 ->
           [id |-> "h001",
            poi_add |-> << [type |-> "cafe", name |-> "Convenience Cafe", abs |-> None,
                            anchor |-> Some([name |-> "center", dx |-> 0, dy |-> 0])] >>,
            poi_update |-> <<>>, bias |-> <<>>]
      [] path = H002 ->
           [id |-> "h002",
            poi_add |-> << [type |-> "retail", name |-> "Clubhouse", abs |-> Some(<<0, 0>>),
                            anchor |-> None] >>,
            poi_update |-> <<>>,
            bias |-> << <<"retail", <<3, 5>> >>, <<"cafe", <<3, 10>> >> >>]
      [] path = H003 ->
           [id |-> "h003",
            poi_add |-> << [type |-> "restaurant", name |-> "Market Square", abs |-> None,
                            anchor |-> Some([name |-> "frontage_center", dx |-> 1, dy |-> 0])],
                           [type |-> "grocery", name |-> "Market", abs |-> Some(<<3, 3>>),
                            anchor |-> None] >>,
            poi_update |-> <<>>, bias |-> <<>>]
      [] OTHER ->
           [id |-> "h004",
            poi_add |-> << [type |-> "restaurant", name |-> "Food Hall", abs |-> Some(<<9, 9>>),
                            anchor |-> None] >>,
            poi_update |-> <<>>, bias |-> <<>>]

\* ------------------------------------------------------ needs and biases
RECURSIVE BiasFromAdds(_, _)
\* for pd in s.poi_add: bias[pd.type] = max(0.2, bias.get(pd.type, 0.0) + 0.2)
\* (an ordered category -> weight map, as a sequence of pairs)
BiasFromAdds(adds, bias) ==
    IF adds = <<>> THEN bias
    ELSE LET t    == Head(adds).type
             here == {i \in 1..Len(bias) : bias[i][1] = t}
             old  == IF here = {} THEN R(0) ELSE bias[CHOOSE i \in here : TRUE][2]
             new  == RMax(<<1, 5>>, RAdd(old, <<1, 5>>))
         IN  BiasFromAdds(Tail(adds),
                 IF here = {} THEN Append(bias, <<t, new>>)
                 ELSE [i \in 1..Len(bias) |-> IF i \in here THEN <<t, new>> ELSE bias[i]])

\* build_need_biases_for_scenario(s)
BuildNeedBiases(sc) ==
    LET bias == IF sc.bias # <<>> THEN sc.bias ELSE BiasFromAdds(sc.poi_add, <<>>)
    IN  [i \in 1..Len(bias) |-> <<bias[i][1], RMax(R(0), RMin(R(1), bias[i][2]))>>]

DefaultCats == <<"cafe", "grocery", "restaurant", "retail">>

\* cats = list(biases.keys()) or [...]
Cats(biases) ==
    IF biases = <<>> THEN DefaultCats ELSE [i \in 1..Len(biases) |-> biases[i][1]]

\* weights = [biases.get(c, 0.25) for c in cats], divided by (sum(weights) or 1.0)
Weights(biases) ==
    LET raw == IF biases = <<>> THEN [i \in 1..Len(DefaultCats) |-> <<1, 4>>]
               ELSE [i \in 1..Len(biases) |-> biases[i][2]]
        sum == RSumSeq(raw)
        den == IF sum[1] = 0 THEN R(1) ELSE sum
    IN  [i \in 1..Len(raw) |-> RDiv(raw[i], den)]

Roles == <<"student", "resident", "worker">>

\* A needs dict is a function from its keys to their values.
\* needs.get(k, 0.0)
NeedGet(needs, k) == IF k \in DOMAIN needs THEN needs[k] ELSE R(0)
\* needs[k] = v
NeedPut(needs, k, v) == [x \in DOMAIN needs \cup {k} |-> IF x = k THEN v ELSE needs[x]]

\* floors.get(role, {})
Floors(role) ==
    CASE role = "student" -> [k \in {"education", "cafe"} |->
                                 IF k = "education" THEN <<1, 2>> ELSE <<2, 5>>]
      [] role = "resident" -> [k \in {"grocery"} |-> <<2, 5>>]
      [] role = "worker" -> [k \in {"cafe"} |-> <<3, 10>>]
      [] OTHER -> [k \in {} |-> R(0)]

\* for cat, w in biases.items(): needs[cat] = max(needs.get(cat, 0.0), w + 0.2)
RECURSIVE SeedBiasesUnclamped(_, _, _)
SeedBiasesUnclamped(needs, biases, i) ==
    IF i > Len(biases) THEN needs
    ELSE SeedBiasesUnclamped(
             NeedPut(needs, biases[i][1],
                     RMax(NeedGet(needs, biases[i][1]), RAdd(biases[i][2], <<1, 5>>))),
             biases, i + 1)

\* for cat, w in biases.items(): needs[cat] = max(needs.get(cat, 0.0), min(1.0, w + 0.2))
RECURSIVE SeedBiases(_, _, _)
SeedBiases(needs, biases, i) ==
    IF i > Len(biases) THEN needs
    ELSE SeedBiases(
             NeedPut(needs, biases[i][1],
                     RMax(NeedGet(needs, biases[i][1]),
                          RMin(R(1), RAdd(biases[i][2], <<1, 5>>)))),
             biases, i + 1)

\* seed_needs(snapshot_needs, biases, role): the dict returned. The writes go
\* to needs = dict(snapshot_needs or {}), a copy.
SeedNeeds(snapshot_needs, biases, role) ==
    LET fl      == Floors(role)
        floored == [k \in DOMAIN snapshot_needs \cup DOMAIN fl |->
                       IF k \in DOMAIN fl THEN RMax(NeedGet(snapshot_needs, k), fl[k])
                       ELSE snapshot_needs[k]]
    IN  SeedBiases(floored, biases, 1)

\* the items of the dict passed as snapshot_needs once seed_needs has returned:
\* line 40 binds needs to dict(snapshot_needs or {}), a new dict of the same
\* items (the values are floats), and every write is a write to needs
SeedNeedsArg(snapshot_needs, biases, role) == snapshot_needs

\* for k, w in biases.items(): out[k] = min(1.0, max(out.get(k, 0.0), w - 0.1*dt))
RECURSIVE Reinforce(_, _, _, _)
Reinforce(out, dt, biases, i) ==
    IF i > Len(biases) THEN out
    ELSE Reinforce(
             NeedPut(out, biases[i][1],
                     RMin(R(1), RMax(NeedGet(out, biases[i][1]),
                                     RSub(biases[i][2], RMul(<<1, 10>>, dt))))),
             dt, biases, i + 1)

\* decay_and_reinforce(needs, dt, biases): the dict returned. The writes go to
\* out = dict(needs), a copy.
DecayAndReinforce(needs, dt, biases) ==
    LET decayed == [k \in DOMAIN needs |->
                       RMax(R(0), RSub(needs[k], RMul(<<1, 50>>, dt)))]
    IN  Reinforce(decayed, dt, biases, 1)

\* the items of the dict passed as needs once decay_and_reinforce has returned:
\* line 55 binds out to dict(needs), and every write is a write to out
DecayAndReinforceArg(needs, dt, biases) == needs

\* ------------------------------------------------------- baseline assets
\* walkable.npy / cost.npy of the baseline directory: a 4x4 grid whose cell (0, 0)
\* is a walkable island cut off by the blocked cells (0, 1), (1, 0), (1, 1)
Grid0(rows) == [y \in 0..(Len(rows) - 1) |-> [x \in 0..(Len(rows[1]) - 1) |->
                    rows[y + 1][x + 1]]]
BaseWalkable == Grid0(<< <<1, 0, 1, 1>>,
                         <<0, 0, 1, 1>>,
                         <<1, 1, 1, 1>>,
                         <<1, 1, 1, 1>> >>)
BaseCost == Grid0(<< << 12, 255,  12,  12>>,
                     <<255, 255,  12,  12>>,
                     << 10,  10,  10,  10>>,
                     << 12,  12,  12,  12>> >>)

\* pois.json of the baseline directory, as the step-3 preparation writes it
BasePois ==
    << [type |-> "cafe", iy |-> 3, ix |-> 3, name |-> "Base Cafe",
        tags |-> [k \in {"amenity"} |-> "cafe"], snapped |-> Some(<<3, 3>>)],
       [type |-> "pharmacy", iy |-> 1, ix |-> 1, name |-> "Base Pharmacy",
        tags |-> [k \in {"amenity"} |-> "pharmacy"], snapped |-> Some(<<0, 0>>)] >>

InGrid(walkable, y, x) ==
    /\ y \in DOMAIN walkable
    /\ x \in DOMAIN walkable[0]

Height(walkable) == Cardinality(DOMAIN walkable)
Width(walkable) == Cardinality(DOMAIN walkable[0])

\* the indices a[lo:stop] selects on an axis of length n (lo >= 0; a negative
\* stop counts from the end)
PySlice(lo, stop, n) ==
    LET st == IF stop < 0 THEN IMax(0, stop + n) ELSE IMin(stop, n)
    IN  {k \in 0..(n - 1) : lo <= k /\ k < st}

\* np.argwhere(walkable[y0:y1+1, x0:x1+1] == 1)[0], as grid coordinates
\* y0 + vy, x0 + vx; None when the window holds no walkable cell
FirstWalkableIn(walkable, y0, y1, x0, x1) ==
    LET ys   == PySlice(y0, y1 + 1, Height(walkable))
        xs   == PySlice(x0, x1 + 1, Width(walkable))
        hits == {c \in ys \X xs : walkable[c[1]][c[2]] = 1}
    IN  IF hits = {} THEN None
        \* the first hit in row-major order; the window starts at (y0, x0), so
        \* y0 + vy, x0 + vx is the cell itself
        ELSE Some(CHOOSE c \in hits : \A d \in hits :
                      c[1] < d[1] \/ (c[1] = d[1] /\ c[2] <= d[2]))

SnapRadius == 20

RECURSIVE OutwardSearch(_, _, _, _)
\* for r in range(1, 21): the first window around (iy, ix) holding a walkable cell
OutwardSearch(walkable, iy, ix, r) ==
    IF r > SnapRadius THEN None
    ELSE LET H == Height(walkable)
             W == Width(walkable)
             found == FirstWalkableIn(walkable, IMax(0, iy - r), IMin(H - 1, iy + r),
                                      IMax(0, ix - r), IMin(W - 1, ix + r))
         IN  IF found # None THEN found ELSE OutwardSearch(walkable, iy, ix, r + 1)

\* snap_to_walkable's loop from radius r on: the first window around (iy, ix)
\* that holds a walkable cell gives the result
RECURSIVE SnapSearch(_, _, _, _, _)
SnapSearch(walkable, iy, ix, r, max_r) ==
    IF r > max_r THEN None
    ELSE LET H == Height(walkable)
             W == Width(walkable)
             found == FirstWalkableIn(walkable, IMax(0, iy - r), IMin(H - 1, iy + r),
                                      IMax(0, ix - r), IMin(W - 1, ix + r))
         IN  IF found # None THEN found ELSE SnapSearch(walkable, iy, ix, r + 1, max_r)

\* snap_to_walkable(walkable, iy, ix, max_r): a cell or None
SnapToWalkable(walkable, iy, ix, max_r) ==
    IF InGrid(walkable, iy, ix) /\ walkable[iy][ix] = 1 THEN Some(<<iy, ix>>)
    ELSE SnapSearch(walkable, iy, ix, 1, max_r)

\* step 3, "Snap to walkable": every classified POI gets its snapped cell or null
Step3Snap(classified, walkable) ==
    [k \in 1..Len(classified) |->
        LET p    == classified[k]
            snap == SnapToWalkable(walkable, p.iy, p.ix, SnapRadius)
        IN  [type |-> p.type, iy |-> p.iy, ix |-> p.ix, lon |-> p.lon, name |-> p.name,
             tags |-> p.tags, snapped |-> snap]]

\* _resolve_anchor: every anchor name resolves to the map centre
ResolveAnchor(anchor_name, walkable) == <<Height(walkable) \div 2, Width(walkable) \div 2>>

\* _place_poi(defn, walkable)
PlacePoi(defn, walkable) ==
    IF defn.abs # None THEN defn.abs[1]
    ELSE LET a  == ResolveAnchor(defn.anchor[1].name, walkable)
         IN  << IMax(0, IMin(Height(walkable) - 1, a[1] + defn.anchor[1].dy)),
                IMax(0, IMin(Width(walkable) - 1, a[2] + defn.anchor[1].dx)) >>

\* the POI appended for one poi_add entry
AddedPoi(pd, walkable) ==
    LET at  == PlacePoi(pd, walkable)
        iy  == at[1]
        ix  == at[2]
        found == IF ~InGrid(walkable, iy, ix) \/ walkable[iy][ix] = 0
                 THEN OutwardSearch(walkable, iy, ix, 1) ELSE None
        loc == IF found # None THEN found[1] ELSE at
    IN  [type |-> pd.type, iy |-> loc[1], ix |-> loc[2], name |-> pd.name,
         \* "tags": pd.attrs or {}
         tags |-> IF "attrs" \in DOMAIN pd THEN pd.attrs ELSE [k \in {} |-> ""],
         snapped |-> Some(loc)]

\* _matches(p, match): p.get(k) == v for every key of match
Matches(p, match) == \A k \in DOMAIN match : k \in DOMAIN p /\ p[k] = match[k]

\* tags replaced by v
TagsReplace(tags, v) == v

\* tags.update(v)
TagsUpdate(tags, v) ==
    [x \in DOMAIN tags \cup DOMAIN v |-> IF x \in DOMAIN v THEN v[x] ELSE tags[x]]

\* the body of "if _matches(p, upd.match)": every key of upd.set is written to
\* p, a "tags" dict merged into the tags p has
SetFields(p, set) ==
    [x \in DOMAIN p \cup DOMAIN set |->
        IF x \notin DOMAIN set THEN p[x]
        ELSE IF x = "tags" THEN TagsUpdate(IF "tags" \in DOMAIN p THEN p.tags
                                           ELSE [k \in {} |-> ""], set[x])
        ELSE set[x]]

\* a pass that stops at the first POI the update matches
ApplyUpdateFirst(pois, upd) ==
    [k \in 1..Len(pois) |->
        IF Matches(pois[k], upd.match) /\ \A i \in 1..(k - 1) : ~Matches(pois[i], upd.match)
        THEN SetFields(pois[k], upd.set) ELSE pois[k]]

\* one pass of "for p in pois" for the update upd
ApplyUpdate(pois, upd) ==
    [k \in 1..Len(pois) |-> IF Matches(pois[k], upd.match) THEN SetFields(pois[k], upd.set)
                            ELSE pois[k]]

\* "for upd in sc.poi_update", from the update at index j on
RECURSIVE ApplyUpdates(_, _, _)
ApplyUpdates(pois, updates, j) ==
    IF j > Len(updates) THEN pois
    ELSE ApplyUpdates(ApplyUpdate(pois, updates[j]), updates, j + 1)

\* POIDef._validate_position: (iy is None or ix is None) and anchor is None is
\* an error. abs holds (iy, ix) when the entry gives both and is None when it
\* lacks one of them.
ValidatePosition(pd) == ~(pd.abs = None /\ pd.anchor = None)

\* POIUpdate: match and set are required fields, each any dict
ValidateUpdate(upd) == {"match", "set"} \subseteq DOMAIN upd

\* Scenario.model_validate_json: every entry of poi_add is a POIDef, every entry
\* of poi_update a POIUpdate
ModelValidate(sc) ==
    /\ \A i \in 1..Len(sc.poi_add) : ValidatePosition(sc.poi_add[i])
    /\ \A j \in 1..Len(sc.poi_update) : ValidateUpdate(sc.poi_update[j])

\* apply_scenario_to_assets(baseline_dir, scenario_path, out_dir): the pois.json
\* written to out_dir (the grids are copied unchanged)
ApplyScenarioToAssets(base_pois, walkable, sc) ==
    ApplyUpdates(base_pois \o [i \in 1..Len(sc.poi_add) |-> AddedPoi(sc.poi_add[i], walkable)],
                 sc.poi_update, 1)

\* json.dump / json.load of pois.json. In the file a number is a literal: an
\* int is written as an integer literal, a float by its repr; an integer
\* literal is read as an int, any other as a float. None is written as null.
IntKeys == {"iy", "ix", "price"}
FloatKeys == {"lon"}
JsonInt(n) == <<"int", n>>
JsonFloat(q) == <<"float", q>>
JsonDumpPoi(p) ==
    [k \in DOMAIN p |->
        IF k \in IntKeys THEN JsonInt(p[k])
        ELSE IF k \in FloatKeys THEN JsonFloat(p[k])
        ELSE IF k = "snapped"
             THEN (IF p[k] = None THEN <<"null">>
                   ELSE <<"object", JsonInt(p[k][1][1]), JsonInt(p[k][1][2])>>)
        ELSE p[k]]
JsonLoadPoi(j) ==
    [k \in DOMAIN j |->
        IF k \in IntKeys \cup FloatKeys THEN j[k][2]
        ELSE IF k = "snapped"
             THEN (IF j[k][1] = "null" THEN None ELSE Some(<<j[k][2][2], j[k][3][2]>>))
        ELSE j[k]]
JsonDump(pois) == [k \in 1..Len(pois) |-> JsonDumpPoi(pois[k])]
JsonLoad(file) == [k \in 1..Len(file) |-> JsonLoadPoi(file[k])]

\* ------------------------------------------------------------------- A*
\* Path costs are held in thousandths: a straight step into n costs
\* 1000 * cost[n], a diagonal one 1414 * cost[n] (DIAG = 1.41421356237).
NEI8 == << <<-1, -1>>, <<-1, 0>>, <<-1, 1>>, <<0, -1>>, <<0, 1>>, <<1, -1>>, <<1, 0>>,
           <<1, 1>> >>
Inf == -1

\* a heuristic that counts the diagonal factor on every step, a hundredfold
OctileInflated(y, x, gy, gx) ==
    141400 * (Abs(y - gy) + Abs(x - gx))

\* h(y, x): octile distance to the goal
Octile(y, x, gy, gx) ==
    LET dy == Abs(y - gy)
        dx == Abs(x - gx)
    IN  1000 * IMax(dy, dx) + 414 * IMin(dy, dx)

\* the order of the heap's entries (f, g, y, x)
TupleLess(a, b) ==
    \/ a[1] < b[1]
    \/ a[1] = b[1] /\ a[2] < b[2]
    \/ a[1] = b[1] /\ a[2] = b[2] /\ a[3] < b[3]
    \/ a[1] = b[1] /\ a[2] = b[2] /\ a[3] = b[3] /\ a[4] < b[4]

RECURSIVE PathBackOpen(_, _, _)
\* a walk back that stops before the start cell is appended
PathBackOpen(parent, c, start) ==
    IF c = start THEN <<>> ELSE Append(PathBackOpen(parent, parent[c], start), c)

RECURSIVE PathBack(_, _, _)
\* the cells from c back to start along the parent pointers, start first
PathBack(parent, c, start) ==
    IF c = start THEN <<c>> ELSE Append(PathBack(parent, parent[c], start), c)

\* heappop(openq): the least entry
HeapTop(openq) == CHOOSE t \in openq : \A u \in openq : u = t \/ TupleLess(t, u)

\* "for dy,dx in NEI8" after the entry top was popped and was not the goal:
\* the heap, gscore and the parent pointers (py, px) after the relaxations
AStarExpand(cost, walkable, goal, openq, gscore, parent) ==
    LET top == HeapTop(openq)
        y   == top[3]
        x   == top[4]
        ng(d) == gscore[<<y, x>>] +
                 (IF d[1] # 0 /\ d[2] # 0 THEN 1414 ELSE 1000) * cost[y + d[1]][x + d[2]]
        better == {k \in 1..Len(NEI8) :
                     /\ InGrid(walkable, y + NEI8[k][1], x + NEI8[k][2])
                     /\ walkable[y + NEI8[k][1]][x + NEI8[k][2]] # 0
                     /\ LET n == <<y + NEI8[k][1], x + NEI8[k][2]>>
                        IN  gscore[n] = Inf \/ ng(NEI8[k]) < gscore[n]}
        cellOf(k) == <<y + NEI8[k][1], x + NEI8[k][2]>>
        moved == {cellOf(k) : k \in better}
        dirOf(n) == <<n[1] - y, n[2] - x>>
    IN  [openq |-> (openq \ {top}) \cup
                      {<<ng(dirOf(n)) + Octile(n[1], n[2], goal[1], goal[2]),
                         ng(dirOf(n)), n[1], n[2]>> : n \in moved},
         gscore |-> [c \in DOMAIN gscore |-> IF c \in moved THEN ng(dirOf(c)) ELSE gscore[c]],
         parent |-> [c \in DOMAIN parent |-> IF c \in moved THEN <<y, x>> ELSE parent[c]]]

RECURSIVE AStarLoop(_, _, _, _, _, _, _)
\* "while openq"
AStarLoop(cost, walkable, start, goal, openq, gscore, parent) ==
    IF openq = {} THEN None
    ELSE LET top == HeapTop(openq)
         IN  IF <<top[3], top[4]>> = goal THEN Some(PathBack(parent, goal, start))
             ELSE LET s == AStarExpand(cost, walkable, goal, openq, gscore, parent)
                  IN  AStarLoop(cost, walkable, start, goal, s.openq, s.gscore, s.parent)

\* astar up to its loop without the test of walkable[start] and walkable[goal]
AStarStartUnchecked(cost, walkable, start, goal) ==
    IF ~(InGrid(walkable, start[1], start[2]) /\ InGrid(walkable, goal[1], goal[2]))
    THEN [returned |-> TRUE]
    ELSE LET cells == (DOMAIN walkable) \X (DOMAIN walkable[0])
         IN  [returned |-> FALSE,
              openq |-> {<<Octile(start[1], start[2], goal[1], goal[2]), 0,
                           start[1], start[2]>>},
              gscore |-> [c \in cells |-> IF c = start THEN 0 ELSE Inf],
              parent |-> [c \in cells |-> <<-1, -1>>]]

\* astar up to its loop: the early returns, or the heap, gscore and parent
\* pointers the loop starts from
AStarStart(cost, walkable, start, goal) ==
    IF ~(InGrid(walkable, start[1], start[2]) /\ InGrid(walkable, goal[1], goal[2]))
    THEN [returned |-> TRUE]
    ELSE IF walkable[start[1]][start[2]] = 0 \/ walkable[goal[1]][goal[2]] = 0
    THEN [returned |-> TRUE]
    ELSE LET cells == (DOMAIN walkable) \X (DOMAIN walkable[0])
         IN  [returned |-> FALSE,
              openq |-> {<<Octile(start[1], start[2], goal[1], goal[2]), 0,
                           start[1], start[2]>>},
              gscore |-> [c \in cells |-> IF c = start THEN 0 ELSE Inf],
              parent |-> [c \in cells |-> <<-1, -1>>]]

\* astar(cost, walkable, start, goal): the path as a sequence of cells, or None
AStar(cost, walkable, start, goal) ==
    LET s == AStarStart(cost, walkable, start, goal)
    IN  IF s.returned THEN None
        ELSE AStarLoop(cost, walkable, start, goal, s.openq, s.gscore, s.parent)

RECURSIVE NearestFrom(_, _, _, _, _, _)
\* the loop of _nearest_path_len over pois[k..]: best is None for float('inf')
NearestFrom(pois, k, walkable, cost, category, start) ==
    IF k > Len(pois) THEN None
    ELSE LET p    == pois[k]
             rest == NearestFrom(pois, k + 1, walkable, cost, category, start)
             loc  == IF p.snapped # None THEN p.snapped[1] ELSE <<p.iy, p.ix>>
             path == IF p.type = category /\ InGrid(walkable, loc[1], loc[2])
                     THEN AStar(cost, walkable, start, loc) ELSE None
         IN  IF path = None THEN rest
             ELSE IF rest = None THEN Some(Len(path[1]))
             ELSE Some(IMin(Len(path[1]), rest[1]))

\* _nearest_path_len(assets_dir, category, start_iy, start_ix)
NearestPathLen(pois, walkable, cost, category, start) ==
    NearestFrom(pois, 1, walkable, cost, category, start)

\* ---------------------------------------------------- scenario workers
\* run_single_scenario(exp_id, scenario_path, cfg), one thread of the pool per
\* submitted path.  Every draw from the shared generator is a step of its own,
\* the thread-local work that follows it is part of that step.
MaxWorkers == 4
Bins == 25

Workers == DOMAIN wk
PathOf(w) == cfg.paths[wk[w].idx]
DocOf(w) == ScenarioFile(PathOf(w))
BiasesOf(w) == BuildNeedBiases(DocOf(w))
\* max_steps = int(cfg.duration_s / 0.5)
MaxSteps == RFloor(RMul(cfg.duration_s, R(2)))
\* what time.time() - start_time can read
ElapsedVals == {R(0), <<1, 2>>, R(1)}

Running(w) == wk[w].pc \notin {"queued", "done", "failed"}
\* Future.done(): the worker returned or raised
Finished(w) == wk[w].pc \in {"done", "failed"}

\* lines 90-91, 110: cy, cx = H//2, W//2, where every agent starts
AgentStart == <<Height(BaseWalkable) \div 2, Width(BaseWalkable) \div 2>>

NewWorker(run, idx) ==
    [ run |-> run, idx |-> idx, pc |-> "queued", metrics |-> None, pois |-> <<>>,
      agents |-> <<>>, step_count |-> 0, elapsed |-> R(0), decisions |-> <<>>,
      di |-> 0, travel_time |-> R(0), path_len |-> 0, base_spend |-> R(0),
      log |-> <<>> ]

\* the draw of worker w: the generator's next state and the value in [0, 1)
DrawState(w) == RngNext(rng[wk[w].run])
DrawValue(w) == Random01(DrawState(w))
Advance(w) == rng' = [rng EXCEPT ![wk[w].run] = DrawState(w)]

\* after a decision is processed: the next decision of the tick, or the next tick
NextDecision(rec) ==
    IF rec.di < Len(rec.decisions)
    THEN [rec EXCEPT !.pc = "success", !.di = @ + 1]
    ELSE [rec EXCEPT !.pc = "tick", !.di = 0, !.step_count = @ + 1]

\* lines 70-91: a pool thread takes the task in submission order, reads the
\* scenario, writes its assets and creates the aggregator; a missing or malformed
\* file raises
RunBegin(w) ==
    /\ wk[w].pc = "queued"
    /\ \A v \in Workers : (wk[v].run = wk[w].run /\ v < w) => wk[v].pc # "queued"
    /\ Cardinality({v \in Workers : wk[v].run = wk[w].run /\ Running(v)}) < MaxWorkers
    /\ wk' = [wk EXCEPT ![w] =
                IF wk[w].idx \in cfg.broken THEN [@ EXCEPT !.pc = "failed"]
                ELSE [@ EXCEPT !.pc = "seed",
                               !.pois = ApplyScenarioToAssets(BasePois, BaseWalkable, DocOf(w)),
                               !.metrics = Some(NewAggregator(DocOf(w).id, Bins,
                                                              cfg.duration_s))]]
    /\ UNCHANGED <<m, nev, cfg, rng, rn, fs, dc, toolVars>>

\* line 95: random.seed(cfg.seed) on the module-level generator
SeedRng(w) ==
    /\ wk[w].pc = "seed"
    /\ rng' = [rng EXCEPT ![wk[w].run] = SeedState(cfg.seed)]
    /\ wk' = [wk EXCEPT ![w] =
                IF cfg.agent_count > 0 THEN [@ EXCEPT !.pc = "roles"]
                ELSE [@ EXCEPT !.pc = "tick",
                               !.metrics = Some(StartRun(@[1], 0, 0))]]
    /\ UNCHANGED <<m, nev, cfg, rn, fs, dc, toolVars>>

\* lines 102-114: role = random.choice(roles) for the next agent; after the last
\* one metrics.start_run(time.time(), len(agents))
DrawRole(w) ==
    /\ wk[w].pc = "roles"
    /\ Advance(w)
    /\ LET ag   == Append(wk[w].agents,
                          [id |-> Len(wk[w].agents), role |-> Choice(Roles, DrawValue(w))])
           last == Len(ag) = cfg.agent_count
       IN  wk' = [wk EXCEPT ![w] =
                    [@ EXCEPT !.agents = ag,
                              !.pc = IF last THEN "tick" ELSE "roles",
                              !.metrics = IF last THEN Some(StartRun(@[1], 0, Len(ag)))
                                          ELSE @]]
    /\ UNCHANGED <<m, nev, cfg, rn, fs, dc, toolVars>>

\* a loop that goes on while the clock reads less than duration_s, whatever
\* step_count is
TickBeginUncounted(w) ==
    /\ wk[w].pc = "tick"
    /\ \E e \in ElapsedVals :
          /\ RLe(wk[w].elapsed, e)
          /\ RLt(e, cfg.duration_s)
          /\ wk' = [wk EXCEPT ![w] =
                      IF wk[w].agents = <<>>
                      THEN [@ EXCEPT !.elapsed = e, !.step_count = @ + 1]
                      ELSE [@ EXCEPT !.elapsed = e, !.decisions = <<>>, !.pc = "choose"]]
    /\ UNCHANGED <<m, nev, cfg, rng, rn, fs, dc, toolVars>>

\* lines 129-135: the loop goes on: step_count < max_steps and the clock reads
\* less than duration_s
TickBegin(w) ==
    /\ wk[w].pc = "tick"
    /\ wk[w].step_count < MaxSteps
    /\ \E e \in ElapsedVals :
          /\ RLe(wk[w].elapsed, e)
          /\ RLt(e, cfg.duration_s)
          /\ wk' = [wk EXCEPT ![w] =
                      IF wk[w].agents = <<>>
                      THEN [@ EXCEPT !.elapsed = e, !.step_count = @ + 1]
                      ELSE [@ EXCEPT !.elapsed = e, !.decisions = <<>>, !.pc = "choose"]]
    /\ UNCHANGED <<m, nev, cfg, rng, rn, fs, dc, toolVars>>

\* lines 129-132, 172-185: the loop ends (the step limit, or the clock reads
\* duration_s or more) and the worker returns its summary (agent_count, steps)
\* and aggregator; the other locals of the call are gone
LoopExit(w) ==
    /\ wk[w].pc = "tick"
    /\ \E e \in ElapsedVals :
          /\ RLe(wk[w].elapsed, e)
          /\ wk[w].step_count >= MaxSteps \/ RLe(cfg.duration_s, e)
          /\ wk' = [wk EXCEPT ![w] =
                      [NewWorker(@.run, @.idx) EXCEPT
                          !.pc = "done", !.metrics = wk[w].metrics,
                          !.pois = wk[w].pois, !.agents = wk[w].agents, !.step_count = wk[w].step_count,
                          !.log = wk[w].log]]
    /\ UNCHANGED <<m, nev, cfg, rng, rn, fs, dc, toolVars>>

\* lines 136-138: cat = random.choices(cats, weights=weights, k=1)[0] for the next
\* agent; choices raises ValueError when the weights total 0
ChooseCategory(w) ==
    /\ wk[w].pc = "choose"
    /\ Advance(w)
    /\ LET ws  == Weights(BiasesOf(w))
           a   == wk[w].agents[Len(wk[w].decisions) + 1]
           ds  == Append(wk[w].decisions,
                         [id |-> a.id, category |-> Choices(Cats(BiasesOf(w)), ws,
                                                            DrawValue(w))])
       IN  wk' = [wk EXCEPT ![w] =
                    IF RSumSeq(ws)[1] <= 0 THEN [@ EXCEPT !.pc = "failed"]
                    ELSE IF Len(ds) = Len(wk[w].agents)
                    THEN [@ EXCEPT !.decisions = ds, !.pc = "success", !.di = 1]
                    ELSE [@ EXCEPT !.decisions = ds]]
    /\ UNCHANGED <<m, nev, cfg, rn, fs, dc, toolVars>>

\* lines 141-150: metrics.record_decision(agent_id, category, elapsed), then
\* random.random() < 0.8
DrawSuccess(w) ==
    /\ wk[w].pc = "success"
    /\ Advance(w)
    /\ LET d   == wk[w].decisions[wk[w].di]
           rec == [wk[w] EXCEPT
                     !.metrics = Some(RecordDecision(@[1], d.category, wk[w].elapsed)),
                     !.log = Append(@, <<"decision", d.id, d.category>>)]
       IN  wk' = [wk EXCEPT ![w] =
                    IF RLt(DrawValue(w), <<4, 5>>) THEN [rec EXCEPT !.pc = "travel"]
                    ELSE NextDecision(rec)]
    /\ UNCHANGED <<m, nev, cfg, rn, fs, dc, toolVars>>

\* line 151: travel_time = random.uniform(1.0, 5.0)
DrawTravel(w) ==
    /\ wk[w].pc = "travel"
    /\ Advance(w)
    /\ wk' = [wk EXCEPT ![w] =
                [@ EXCEPT !.travel_time = Uniform(R(1), R(5), DrawValue(w)),
                          !.pc = "pathlen"]]
    /\ UNCHANGED <<m, nev, cfg, rn, fs, dc, toolVars>>

\* lines 152-156: path_len = random.randint(10, 50), then
\* metrics.record_arrival(agent_id, category, path_len, travel_time, elapsed + travel_time)
DrawPathLen(w) ==
    /\ wk[w].pc = "pathlen"
    /\ Advance(w)
    /\ LET d  == wk[w].decisions[wk[w].di]
           pl == RandInt(10, 50, DrawValue(w))
       IN  wk' = [wk EXCEPT ![w] =
                    [@ EXCEPT !.path_len = pl,
                              !.metrics = Some(RecordArrival(@[1], d.category, pl,
                                                   wk[w].travel_time,
                                                   RAdd(wk[w].elapsed, wk[w].travel_time))),
                              !.log = Append(@, <<"arrival", d.id, d.category>>),
                              !.pc = "buy"]]
    /\ UNCHANGED <<m, nev, cfg, rn, fs, dc, toolVars>>

\* line 156: random.random() < 0.7
DrawPurchase(w) ==
    /\ wk[w].pc = "buy"
    /\ Advance(w)
    /\ wk' = [wk EXCEPT ![w] =
                IF RLt(DrawValue(w), <<7, 10>>) THEN [@ EXCEPT !.pc = "base"]
                ELSE NextDecision(@)]
    /\ UNCHANGED <<m, nev, cfg, rn, fs, dc, toolVars>>

\* any(poi.type == category for poi in s.poi_add)
IsNewPoi(sc, category) == \E i \in 1..Len(sc.poi_add) : sc.poi_add[i].type = category

\* lines 158-164: base_spend = random.uniform(5.0, 25.0); at a category the
\* scenario did not add, metrics.record_purchase(agent_id, category, base_spend, ...)
DrawBaseSpend(w) ==
    /\ wk[w].pc = "base"
    /\ Advance(w)
    /\ LET d  == wk[w].decisions[wk[w].di]
           bs == Uniform(R(5), R(25), DrawValue(w))
       IN  wk' = [wk EXCEPT ![w] =
                    IF IsNewPoi(DocOf(w), d.category)
                    THEN [@ EXCEPT !.base_spend = bs, !.pc = "factor"]
                    ELSE NextDecision(
                           [@ EXCEPT !.base_spend = bs,
                                     !.metrics = Some(RecordPurchase(@[1], d.category, bs,
                                                  RAdd(wk[w].elapsed, wk[w].travel_time))),
                                     !.log = Append(@, <<"purchase", d.id, d.category>>)])]
    /\ UNCHANGED <<m, nev, cfg, rn, fs, dc, toolVars>>

\* lines 160-164: spend = base_spend * random.uniform(1.3, 2.5), then record_purchase
DrawSpendFactor(w) ==
    /\ wk[w].pc = "factor"
    /\ Advance(w)
    /\ LET d     == wk[w].decisions[wk[w].di]
           spend == RMul(wk[w].base_spend, Uniform(<<13, 10>>, <<5, 2>>, DrawValue(w)))
       IN  wk' = [wk EXCEPT ![w] =
                    NextDecision(
                      [@ EXCEPT !.metrics = Some(RecordPurchase(@[1], d.category, spend,
                                                   RAdd(wk[w].elapsed, wk[w].travel_time))),
                                !.log = Append(@, <<"purchase", d.id, d.category>>)])]
    /\ UNCHANGED <<m, nev, cfg, rn, fs, dc, toolVars>>

\* ------------------------------------------------- the final document
EnvKeys == {"env1", "env2", "env3", "env4"}
MetricNames == {"efficiency", "cost", "time_saved"}
DataPoints == 25

\* get(env, metric) = env_to_series.get(env, {}).get(metric, [])
GetSeries(env_to_series, env, metric) ==
    IF env \in DOMAIN env_to_series THEN env_to_series[env][metric] ELSE <<>>

\* build_final_analytics(env_to_series); the presentation strings of "summary"
\* and the labels and colours are left out
BuildFinalAnalytics(env_to_series) ==
    [ metrics  |-> [mt \in MetricNames |->
                      [e \in EnvKeys |-> GetSeries(env_to_series, e, mt)]],
      overall  |-> [weights |-> [efficiency |-> <<2, 5>>, cost |-> <<7, 20>>,
                                 time_saved |-> <<1, 4>>]],
      metadata |-> [data_points |-> DataPoints, version |-> "1.0"] ]

\* ------------------------------------------------------- analytics.json
\* The file as a reader can see it: the document being written and how many of
\* its blocks are on disk.  open(path, 'w') truncates, json.dump fills the
\* stream's 8192-byte buffer, which is written out each time it is full, and
\* close writes the rest.
DocPoints(doc) ==
    LET n(mt, e) == Len(doc.metrics[mt][e])
        row(mt)  == n(mt, "env1") + n(mt, "env2") + n(mt, "env3") + n(mt, "env4")
    IN  row("efficiency") + row("cost") + row("time_saved")
\* json.dumps(doc, indent=2): 1423 bytes without points, 59 more for each point
DocBlocks(doc) == (1423 + 59 * DocPoints(doc) + 8191) \div 8192

NoFile == [exists |-> FALSE, doc |-> None, blocks |-> 0, of |-> 0, seen |-> "nothing"]

\* with open(path, 'w') as f: the file exists and is empty
OpenForWrite(f, doc) ==
    [f EXCEPT !.exists = TRUE, !.doc = Some(doc), !.blocks = 0, !.of = DocBlocks(doc)]
\* json.dump(obj, f, indent=2): one more full buffer reaches the file
FlushBlock(f) == [f EXCEPT !.blocks = @ + 1]
\* leaving the with block: the rest reaches the file
CloseFile(f) == [f EXCEPT !.blocks = f.of]

\* what open(path).read() returns at this moment
ReadFile(f) ==
    IF f.blocks = f.of THEN "complete"
    ELSE IF f.blocks = 0 THEN "empty" ELSE "partial"

\* a reader of analytics.json (the dashboard) opens and reads the file
ReaderRead ==
    /\ fs.exists
    /\ fs.seen # ReadFile(fs)
    /\ fs' = [fs EXCEPT !.seen = ReadFile(fs)]
    /\ UNCHANGED <<m, nev, cfg, rng, wk, rn, dc, toolVars>>

\* ------------------------------------------------------- run_experiment
\* env_key_for(path)
EnvKeyFor(path) ==
    IF StartsWith(path, "baseline") THEN "env1"
    ELSE IF Contains(path, "h001") THEN "env2"
    ELSE IF Contains(path, "h003") THEN "env3"
    ELSE "env4"

NewRunner ==
    [ pc |-> "collect", handled |-> {}, results |-> {}, env_series |-> [e \in {} |-> 0],
      baseline_metrics |-> None, calls |-> <<>>, analytics |-> None ]

\* the workers run_experiment submitted
Submitted == {w \in Workers : wk[w].run = 1}

\* a collector that takes a future as soon as its worker has begun
YieldsStarted(w) == w \in Submitted \ rn.handled /\ wk[w].pc # "queued"

\* line 216: as_completed yields each submitted future once, when it is done
AsCompleted(w) == w \in Submitted \ rn.handled /\ Finished(w)

\* lines 216-236: as_completed yields a finished future; its result is stored and
\* summarized, an exception is only reported.  calls records each summarize_scenario
\* call: the worker whose aggregator is summarized and the one passed as baseline.
CollectOne(w) ==
    /\ rn.pc = "collect"
    /\ AsCompleted(w)
    /\ LET isBase == StartsWith(PathOf(w), "baseline")
           bm     == IF isBase THEN Some(w) ELSE rn.baseline_metrics
           arg    == IF isBase THEN None ELSE rn.baseline_metrics
           series == SummarizeScenario(wk[w].metrics[1],
                         IF arg = None THEN None ELSE Some(wk[arg[1]].metrics[1]))
           key    == EnvKeyFor(PathOf(w))
       IN  rn' = IF wk[w].pc = "failed"
                 THEN [rn EXCEPT !.handled = @ \cup {w}]
                 ELSE [rn EXCEPT
                         !.handled = @ \cup {w},
                         !.results = @ \cup {PathOf(w)},
                         !.baseline_metrics = bm,
                         !.calls = Append(@, [worker |-> w, key |-> key, baseline |-> arg]),
                         !.env_series =
                             IF series.raised # "" THEN @
                             ELSE [e \in (DOMAIN @) \cup {key} |->
                                      IF e = key THEN series ELSE @[e]]]
    /\ UNCHANGED <<m, nev, cfg, rng, wk, fs, dc, toolVars>>

\* lines 239-241: every future was yielded; build_final_analytics(env_series),
\* then _write_json opens analytics.json for writing
ComposeAndOpen ==
    /\ rn.pc = "collect"
    /\ rn.handled = Submitted
    /\ LET doc == BuildFinalAnalytics(rn.env_series)
       IN  /\ rn' = [rn EXCEPT !.pc = "dump", !.analytics = Some(doc)]
           /\ fs' = OpenForWrite(fs, doc)
    /\ UNCHANGED <<m, nev, cfg, rng, wk, dc, toolVars>>

\* _write_json, json.dump: a full buffer is written to the file
WriteBlock ==
    /\ rn.pc = "dump"
    /\ fs.blocks + 1 < fs.of
    /\ fs' = FlushBlock(fs)
    /\ UNCHANGED <<m, nev, cfg, rng, wk, rn, dc, toolVars>>

\* _write_json: the with block is left, the file is closed
WriteClose ==
    /\ rn.pc = "dump"
    /\ fs' = CloseFile(fs)
    /\ rn' = [rn EXCEPT !.pc = "done"]
    /\ UNCHANGED <<m, nev, cfg, rng, wk, dc, toolVars>>

\* ------------------------------------------------------------ the runs
MaxAgents == 2
MaxSeed == 0

\* the scenario_paths lists handed to run_experiment
PathLists ==
    { <<Baseline>>, <<H002>>, <<Baseline, H001>>, <<Baseline, H002, H004>>,
      <<Baseline, H001, H003, H004>>, <<Baseline, H001, H002, H004>> }

\* loop passes (one for each tick and each agent decision in it) of a whole run
Work(c) == Len(c.paths) * (1 + c.agent_count) * RFloor(RMul(c.duration_s, R(2)))
MaxWork == 4

\* ExperimentConfig values and the scenario files that cannot be read (broken)
Configs ==
    { c \in [ paths : PathLists, broken : {{}, {2}}, seed : 0..MaxSeed,
              duration_s : {<<1, 2>>, R(1)}, agent_count : 0..MaxAgents ] :
        Work(c) <= MaxWork /\ c.broken \subseteq 1..Len(c.paths) }

\* the state of the parts a specification does not run
IdleAgg == NewAggregator("idle", 1, R(1))
IdleConfig ==
    [paths |-> <<Baseline>>, broken |-> {}, seed |-> 0, duration_s |-> R(1),
     agent_count |-> 0]
\* the brain server before any request
NewDecide == [pc |-> "idle", agents |-> <<>>, oracle |-> <<>>, out |-> <<>>, requests |-> 0]

Init ==
    /\ cfg \in Configs
    /\ rng = [r \in {1} |-> 0]
    /\ wk = [w \in 1..Len(cfg.paths) |-> NewWorker(1, w)]
    /\ rn = NewRunner
    /\ fs = NoFile
    /\ m = IdleAgg
    /\ nev = 0
    /\ dc = NewDecide
    /\ IdleTools

\* a step of one scenario worker
WorkerNext ==
    \/ \E w \in Workers : RunBegin(w)
    \/ \E w \in Workers : SeedRng(w)
    \/ \E w \in Workers : DrawRole(w)
    \/ \E w \in Workers : TickBegin(w)
    \/ \E w \in Workers : LoopExit(w)
    \/ \E w \in Workers : ChooseCategory(w)
    \/ \E w \in Workers : DrawSuccess(w)
    \/ \E w \in Workers : DrawTravel(w)
    \/ \E w \in Workers : DrawPathLen(w)
    \/ \E w \in Workers : DrawPurchase(w)
    \/ \E w \in Workers : DrawBaseSpend(w)
    \/ \E w \in Workers : DrawSpendFactor(w)

Next ==
    \/ WorkerNext
    \/ \E w \in Workers : CollectOne(w)
    \/ ComposeAndOpen
    \/ WriteBlock
    \/ WriteClose
    \/ ReaderRead

Spec == Init /\ [][Next]_vars

\* ------------------------------------------------------ two executions
\* run_experiment executed twice with one configuration: the workers of the
\* second execution (run 2) wait until the first process has ended
TwinConfigs ==
    { c \in Configs : Len(c.paths) = 2 /\ c.agent_count > 0 /\ c.broken = {} }

Twin(w) == w + Len(cfg.paths)

InitTwoRuns ==
    /\ cfg \in TwinConfigs
    /\ rng = [r \in {1, 2} |-> 0]
    /\ wk = [w \in 1..(2 * Len(cfg.paths)) |->
                IF w <= Len(cfg.paths) THEN NewWorker(1, w)
                ELSE [NewWorker(2, w - Len(cfg.paths)) EXCEPT !.pc = "unsubmitted"]]
    /\ rn = NewRunner
    /\ fs = NoFile
    /\ m = IdleAgg
    /\ nev = 0
    /\ dc = NewDecide
    /\ IdleTools

\* the first process ends, what it recorded stays; the second one submits its workers
SecondExecution ==
    /\ \A w \in Workers : wk[w].run = 1 => Finished(w)
    /\ \E w \in Workers : wk[w].pc = "unsubmitted"
    /\ wk' = [w \in Workers |->
                IF wk[w].run = 1
                THEN [NewWorker(1, wk[w].idx) EXCEPT
                        !.pc = wk[w].pc, !.step_count = wk[w].step_count,
                        !.log = wk[w].log]
                ELSE [wk[w] EXCEPT !.pc = "queued"]]
    /\ rng' = [rng EXCEPT ![1] = 0]
    /\ UNCHANGED <<m, nev, cfg, rn, fs, dc, toolVars>>

NextTwoRuns ==
    \/ WorkerNext
    \/ SecondExecution

SpecTwoRuns == InitTwoRuns /\ [][NextTwoRuns]_vars

\* -------------------------------------------------------------- /decide
\* NEED_TO_CATEGORY.get(need, "retail")
NeedToCategory(need) ==
    CASE need = "hunger"    -> "restaurant"
      [] need = "caffeine"  -> "cafe"
      [] need = "groceries" -> "grocery"
      [] need = "health"    -> "pharmacy"
      [] need = "education" -> "education"
      [] need = "leisure"   -> "retail"
      [] need = "social"    -> "cafe"
      [] OTHER              -> "retail"

\* the except branch's loop over ag.needs.items(), in the map's order: needs is a
\* sequence of <<need, value>> with values in tenths; best is <<best_need, best_val>>
RECURSIVE BestNeed(_, _, _)
BestNeed(needs, k, best) ==
    IF k > Len(needs) THEN best
    ELSE BestNeed(needs, k + 1,
                  IF needs[k][2] > best[2] THEN <<Some(needs[k][1]), needs[k][2]>>
                  ELSE best)

\* the table applied to the first need of the map, whatever its value
FallbackFirstNeed(needs) ==
    NeedToCategory(IF Len(needs) = 0 THEN "leisure" ELSE needs[1][1])

\* category = NEED_TO_CATEGORY.get(best_need or "leisure", "retail")
FallbackCategory(needs) ==
    LET best == BestNeed(needs, 1, <<None, -10>>)[1]
    IN  NeedToCategory(IF best = None \/ best = Some("") THEN "leisure" ELSE best[1])

\* What the oracle call can end in: the HTTP call raises or times out ("error"),
\* the response text holds no JSON object ("garbage"), or it holds an object,
\* with or without a category
OracleOutcomes ==
    { [kind |-> "error", category |-> None], [kind |-> "garbage", category |-> None],
      [kind |-> "object", category |-> None] }
    \cup { [kind |-> "object", category |-> Some(c)] :
              c \in {"cafe", "pharmacy", "leisure", "spa"} }

\* call_json: raise_for_status raises; text that cannot be parsed gives {}
CallJson(o) ==
    IF o.kind = "error" THEN [raised |-> TRUE, out |-> None]
    ELSE IF o.kind = "garbage" THEN [raised |-> FALSE, out |-> None]
    ELSE [raised |-> FALSE, out |-> o.category]

\* llm_decide_intent: cat = out.get("category", "retail")
LlmDecideIntent(o) ==
    LET r == CallJson(o)
    IN  [raised |-> r.raised,
         category |-> IF r.raised THEN "" ELSE IF r.out = None THEN "retail" ELSE r.out[1]]

\* the body of decide's loop for one agent
DecideOne(ag, o) ==
    LET r == LlmDecideIntent(o)
    IN  [id |-> ag.id,
         category |-> IF r.raised THEN FallbackCategory(ag.needs) ELSE r.category]

MaxReqAgents == 2
MaxRequests == 2

NeedMaps ==
    { <<>>, << <<"hunger", 4>>, <<"caffeine", 4>> >>, << <<"social", 2>>, <<"health", 7>> >>,
      << <<"grocery", 3>> >>, << <<"groceries", 5>>, <<"education", 1>> >>,
      << <<"leisure", 3>>, <<"social", 6>> >>, << <<"education", 9>> >>,
      << <<"caffeine", 8>>, <<"hunger", 0>> >> }

DecideRequests ==
    UNION { [1..n -> NeedMaps] : n \in 1..MaxReqAgents }

\* POST /decide arrives with its agents
DecideBegin ==
    /\ dc.pc = "idle"
    /\ dc.requests < MaxRequests
    /\ \E rq \in DecideRequests :
          dc' = [dc EXCEPT !.pc = "agents", !.out = <<>>, !.oracle = <<>>,
                           !.requests = @ + 1,
                           !.agents = [k \in 1..Len(rq) |-> [id |-> k, needs |-> rq[k]]]]
    /\ UNCHANGED <<m, nev, cfg, rng, wk, rn, fs, toolVars>>

\* one pass of the loop over req.agents; oracle records what the oracle call ended in
DecideAgent ==
    /\ dc.pc = "agents"
    /\ Len(dc.out) < Len(dc.agents)
    /\ \E o \in OracleOutcomes :
          dc' = [dc EXCEPT !.out = Append(@, DecideOne(dc.agents[Len(dc.out) + 1], o)),
                           !.oracle = Append(@, o)]
    /\ UNCHANGED <<m, nev, cfg, rng, wk, rn, fs, toolVars>>

\* the decisions are appended to the log and returned
DecideReturn ==
    /\ dc.pc = "agents"
    /\ Len(dc.out) = Len(dc.agents)
    /\ dc' = [dc EXCEPT !.pc = "idle"]
    /\ UNCHANGED <<m, nev, cfg, rng, wk, rn, fs, toolVars>>

InitDecide ==
    /\ dc = NewDecide
    /\ cfg = IdleConfig
    /\ rng = [r \in {1} |-> 0]
    /\ wk = <<>>
    /\ rn = NewRunner
    /\ fs = NoFile
    /\ m = IdleAgg
    /\ nev = 0
    /\ IdleTools

NextDecide ==
    \/ DecideBegin
    \/ DecideAgent
    \/ DecideReturn

SpecDecide == InitDecide /\ [][NextDecide]_vars

\* ------------------------------------------------ the aggregator on its own
InitAggOnly ==
    /\ InitAgg
    /\ cfg = IdleConfig
    /\ rng = [r \in {1} |-> 0]
    /\ wk = <<>>
    /\ rn = NewRunner
    /\ fs = NoFile
    /\ dc = NewDecide
    /\ IdleTools

SpecAgg == InitAggOnly /\ [][NextAgg]_vars

\* ------------------------------------------------ apply_scenario_to_assets
\* The call as the steps of its body, over the baseline directory and the
\* output directory. A directory holds pois.json and the four grid files,
\* each None while the file does not exist.
runVars == <<m, nev, cfg, rng, wk, rn, fs, dc>>
IdleRun ==
    /\ m = IdleAgg
    /\ nev = 0
    /\ cfg = IdleConfig
    /\ rng = [r \in {1} |-> 0]
    /\ wk = <<>>
    /\ rn = NewRunner
    /\ fs = NoFile
    /\ dc = NewDecide

MaxAdds == 2
MaxUpdates == 2
SeqsUpTo(S, n) == UNION {[1..k -> S] : k \in 0..n}
NoTags == [k \in {} |-> ""]

BlockedWalkable == [y \in 0..3 |-> [x \in 0..3 |-> 0]]
BlockedCost == [y \in 0..3 |-> [x \in 0..3 |-> 255]]
SemanticGrid == Grid0(<< <<1, 6, 1, 1>>, <<6, 6, 1, 1>>, <<2, 2, 2, 2>>, <<1, 1, 1, 1>> >>)
FeatureIdGrid == Grid0(<< <<0, 7, 0, 0>>, <<7, 7, 0, 0>>, <<0, 0, 0, 0>>, <<0, 0, 0, 0>> >>)

\* the POIs step 3 classified, before snapping (lonlat_to_ij keeps them in the grid)
Classified ==
    << [type |-> "cafe", iy |-> 3, ix |-> 3, lon |-> <<3, 2>>, name |-> "Base Cafe",
        tags |-> [k \in {"amenity"} |-> "cafe"]],
       [type |-> "pharmacy", iy |-> 1, ix |-> 1, lon |-> <<5, 2>>, name |-> "Base Pharmacy",
        tags |-> [k \in {"amenity"} |-> "pharmacy"]] >>

\* a baseline directory as steps 1 to 3 leave it
BaselineDir(walkable, cost) ==
    [pois |-> Some(JsonDump(Step3Snap(Classified, walkable))), semantic |-> Some(SemanticGrid),
     walkable |-> Some(walkable), cost |-> Some(cost), feature_id |-> Some(FeatureIdGrid)]
BaselineDirs == {BaselineDir(BaseWalkable, BaseCost), BaselineDir(BlockedWalkable, BlockedCost)}

\* the output directory before the call: not there yet, or left by an earlier call
EmptyDir == [pois |-> None, semantic |-> None, walkable |-> None, cost |-> None,
             feature_id |-> None]
StaleDir == [pois |-> Some(<<>>), semantic |-> Some(FeatureIdGrid),
             walkable |-> Some(BlockedWalkable), cost |-> Some(BlockedCost),
             feature_id |-> Some(SemanticGrid)]

\* poi_add entries: a walkable target, a blocked one, one far outside the
\* grid, one above the grid, an anchor whose offsets are clamped
AddDefs ==
    { [type |-> "cafe", name |-> "New Cafe", abs |-> Some(<<3, 3>>), anchor |-> None,
       attrs |-> [k \in {"price"} |-> "low"]],
      [type |-> "cafe", name |-> "Corner", abs |-> Some(<<1, 1>>), anchor |-> None,
       attrs |-> NoTags],
      [type |-> "restaurant", name |-> "Far", abs |-> Some(<<30, 30>>), anchor |-> None,
       attrs |-> NoTags],
      [type |-> "grocery", name |-> "North", abs |-> Some(<<-3, 2>>), anchor |-> None,
       attrs |-> NoTags],
      [type |-> "pharmacy", name |-> "Kiosk", abs |-> None,
       anchor |-> Some([name |-> "center", dx |-> 9, dy |-> -9]), attrs |-> NoTags] }

\* poi_update entries
UpdateDefs ==
    { [match |-> [k \in {"type"} |-> "cafe"],
       set |-> [k \in {"name", "price"} |-> IF k = "name" THEN "Renamed" ELSE 3]],
      [match |-> [k \in {"type"} |-> "cafe"], set |-> [k \in {"name"} |-> "Second"]],
      [match |-> [k \in {"name"} |-> "Renamed"],
       set |-> [k \in {"tags"} |-> [t \in {"open", "price"} |-> "24h"]]],
      [match |-> [k \in {"id"} |-> "poi-1"], set |-> [k \in {"type"} |-> "other"]] }

\* entries at the edge of the schema: a poi_add with neither coordinates nor
\* anchor, poi_update entries with an empty match, an empty set, both empty,
\* and one without its set field
NoPositionDef ==
    [type |-> "cafe", name |-> "Nowhere", abs |-> None, anchor |-> None, attrs |-> NoTags]
EdgeUpdateDefs ==
    { [match |-> NoTags, set |-> [k \in {"type"} |-> "other"]],
      [match |-> [k \in {"type"} |-> "cafe"], set |-> NoTags],
      [match |-> NoTags, set |-> NoTags],
      [match |-> [k \in {"type"} |-> "cafe"]] }
EdgeScenarios ==
    { [id |-> "e", poi_add |-> a, poi_update |-> u] :
        a \in SeqsUpTo({NoPositionDef,
                        CHOOSE pd \in AddDefs : pd.name = "New Cafe"}, MaxAdds),
        u \in SeqsUpTo(EdgeUpdateDefs, 1) }

Scenarios ==
    { [id |-> "s", poi_add |-> a, poi_update |-> u] :
        a \in SeqsUpTo(AddDefs, MaxAdds), u \in SeqsUpTo(UpdateDefs, MaxUpdates) }
    \cup EdgeScenarios

InitEditor ==
    /\ IdleRun
    /\ \E b \in BaselineDirs, o \in {EmptyDir, StaleDir}, sc \in Scenarios, same \in BOOLEAN :
          \* same: out_dir names the baseline directory itself; out is then b
          /\ same => o = EmptyDir
          /\ ed = [pc |-> "call", base |-> b, out |-> IF same THEN b ELSE o, same |-> same,
                   sc |-> sc, walkable |-> None, pois |-> <<>>, ai |-> 1, ui |-> 1,
                   trace |-> <<>>]
    /\ fn = <<>>
    /\ gr = <<>>
    /\ lv = <<>>
    /\ pm = <<>>
    /\ nd = <<>>
    /\ srv = <<>>

\* out_dir is the baseline directory: shutil.copy2 raises SameFileError on
\* the first grid file, before anything is written
EdSameFile ==
    /\ ed.pc = "call"
    /\ ed.same
    /\ ed' = [ed EXCEPT !.pc = "raised"]
    /\ UNCHANGED <<runVars, fn, gr, lv, pm, nd, srv>>

\* the end of the call when pois.json is written into the baseline directory
EdWriteInPlace ==
    /\ ed.pc = "run"
    /\ ed.ai > Len(ed.sc.poi_add)
    /\ ed.ui > Len(ed.sc.poi_update)
    /\ ed' = [ed EXCEPT !.pc = "done", !.base = [@ EXCEPT !.pois = Some(JsonDump(ed.pois))],
                        !.out = [@ EXCEPT !.pois = Some(JsonDump(ed.pois))]]
    /\ UNCHANGED <<runVars, fn, gr, lv, pm, nd, srv>>

\* the entry of the call when the POI list starts empty instead of from the
\* baseline's POIs
EdLoadNoPois ==
    /\ ed.pc = "call"
    /\ ~ed.same
    /\ ModelValidate(ed.sc)
    /\ ed' = [ed EXCEPT !.pc = "run",
                        !.out = [@ EXCEPT !.semantic = ed.base.semantic,
                                          !.walkable = ed.base.walkable,
                                          !.cost = ed.base.cost,
                                          !.feature_id = ed.base.feature_id],
                        !.walkable = ed.base.walkable,
                        !.pois = <<>>]
    /\ UNCHANGED <<runVars, fn, gr, lv, pm, nd, srv>>

\* makedirs, the copy of the grid files, _load_baseline_assets, then
\* Scenario.model_validate_json raises ValidationError: the grids are in
\* out_dir, pois.json is not written
EdInvalid ==
    /\ ed.pc = "call"
    /\ ~ed.same
    /\ ~ModelValidate(ed.sc)
    /\ ed' = [ed EXCEPT !.pc = "raised",
                        !.out = [@ EXCEPT !.semantic = ed.base.semantic,
                                          !.walkable = ed.base.walkable,
                                          !.cost = ed.base.cost,
                                          !.feature_id = ed.base.feature_id]]
    /\ UNCHANGED <<runVars, fn, gr, lv, pm, nd, srv>>

\* makedirs, the copy of the grid files, _load_baseline_assets, the scenario
\* read, pois = list(assets["pois"])
EdLoad ==
    /\ ed.pc = "call"
    /\ ~ed.same
    /\ ModelValidate(ed.sc)
    /\ ed' = [ed EXCEPT !.pc = "run",
                        !.out = [@ EXCEPT !.semantic = ed.base.semantic,
                                          !.walkable = ed.base.walkable,
                                          !.cost = ed.base.cost,
                                          !.feature_id = ed.base.feature_id],
                        !.walkable = ed.base.walkable,
                        !.pois = JsonLoad(ed.base.pois[1])]
    /\ UNCHANGED <<runVars, fn, gr, lv, pm, nd, srv>>

\* one turn of "for pd in sc.poi_add"
EdAdd ==
    /\ ed.pc = "run"
    /\ ed.ai <= Len(ed.sc.poi_add)
    /\ ed' = [ed EXCEPT !.pois = Append(@, AddedPoi(ed.sc.poi_add[ed.ai], ed.walkable[1])),
                        !.ai = @ + 1,
                        !.trace = Append(@, <<"add", ed.ai, {}>>)]
    /\ UNCHANGED <<runVars, fn, gr, lv, pm, nd, srv>>

\* one turn of "for upd in sc.poi_update"
EdUpdate ==
    /\ ed.pc = "run"
    /\ ed.ai > Len(ed.sc.poi_add)
    /\ ed.ui <= Len(ed.sc.poi_update)
    /\ LET upd == ed.sc.poi_update[ed.ui]
           hit == {k \in 1..Len(ed.pois) : Matches(ed.pois[k], upd.match)}
       IN  ed' = [ed EXCEPT !.pois = ApplyUpdate(@, upd),
                            !.ui = @ + 1,
                            !.trace = Append(@, <<"update", ed.ui, hit>>)]
    /\ UNCHANGED <<runVars, fn, gr, lv, pm, nd, srv>>

\* json.dump(pois, f) into out_dir/pois.json
EdWrite ==
    /\ ed.pc = "run"
    /\ ed.ai > Len(ed.sc.poi_add)
    /\ ed.ui > Len(ed.sc.poi_update)
    /\ ed' = [ed EXCEPT !.pc = "done", !.out = [@ EXCEPT !.pois = Some(JsonDump(ed.pois))]]
    /\ UNCHANGED <<runVars, fn, gr, lv, pm, nd, srv>>

NextEditor == EdSameFile \/ EdInvalid \/ EdLoad \/ EdAdd \/ EdUpdate \/ EdWrite
SpecEditor == InitEditor /\ [][NextEditor]_vars

\* ------------------------------------- snap_to_walkable and astar, called
\* One call of either function on a small grid: fn holds the arguments and,
\* once the call has returned, the result.
GridH == 3
GridW == 3
Margin == 3
MaxRadius == 3
SmallGrids == [0..(GridH - 1) -> [0..(GridW - 1) -> {0, 1}]]

\* cost grids that go with a walkable grid: 255 on blocked cells, a uniform or
\* a varied step cost on the others
CostGrid(walkable, varied) ==
    [y \in DOMAIN walkable |-> [x \in DOMAIN walkable[0] |->
        IF walkable[y][x] = 0 THEN 255
        ELSE IF varied THEN 10 + 20 * ((y + 2 * x) % 3) ELSE 12]]
CostGrids(walkable) == {CostGrid(walkable, varied) : varied \in BOOLEAN}

\* start and goal cells: every cell of the grid, one above it and one to its right
Endpoints == ((0..(GridH - 1)) \X (0..(GridW - 1))) \cup {<<-1, 0>>, <<GridH - 1, GridW>>}

SnapCall0(w, iy, ix, r) ==
    [op |-> "snap", walkable |-> w, iy |-> iy, ix |-> ix, max_r |-> r,
     pc |-> "call", result |-> None]
AStarCall0(w, c, a, b) ==
    [op |-> "astar", walkable |-> w, cost |-> c, start |-> a, goal |-> b,
     pc |-> "call", openq |-> {}, gscore |-> <<>>, parent |-> <<>>, result |-> None]

InitGridFn ==
    /\ IdleRun
    /\ ed = <<>>
    /\ \/ \E w \in SmallGrids, iy \in (0 - Margin)..(GridH - 1 + Margin),
             ix \in (0 - Margin)..(GridW - 1 + Margin), r \in 0..MaxRadius :
               fn = SnapCall0(w, iy, ix, r)
       \/ \E w \in SmallGrids, a \in Endpoints, b \in Endpoints :
               \E c \in CostGrids(w) : fn = AStarCall0(w, c, a, b)
    /\ gr = <<>>
    /\ lv = <<>>
    /\ pm = <<>>
    /\ nd = <<>>
    /\ srv = <<>>

SnapCall ==
    /\ fn.op = "snap"
    /\ fn.pc = "call"
    /\ fn' = [fn EXCEPT !.pc = "done",
                        !.result = SnapToWalkable(fn.walkable, fn.iy, fn.ix, fn.max_r)]
    /\ UNCHANGED <<runVars, ed, gr, lv, pm, nd, srv>>

\* astar from its entry to the first test of "while openq"
AStarBegin ==
    /\ fn.op = "astar"
    /\ fn.pc = "call"
    /\ LET s == AStarStart(fn.cost, fn.walkable, fn.start, fn.goal)
       IN  fn' = IF s.returned THEN [fn EXCEPT !.pc = "done"]
                 ELSE [fn EXCEPT !.pc = "loop", !.openq = s.openq, !.gscore = s.gscore,
                                 !.parent = s.parent]
    /\ UNCHANGED <<runVars, ed, gr, lv, pm, nd, srv>>

\* one turn of "while openq" that pops the goal: the path is returned
AStarGoal ==
    /\ fn.op = "astar"
    /\ fn.pc = "loop"
    /\ fn.openq # {}
    /\ LET top == HeapTop(fn.openq)
       IN  /\ <<top[3], top[4]>> = fn.goal
           /\ fn' = [fn EXCEPT !.pc = "done",
                               !.openq = @ \ {top},
                               !.result = Some(PathBack(fn.parent, fn.goal, fn.start))]
    /\ UNCHANGED <<runVars, ed, gr, lv, pm, nd, srv>>

\* one turn of "while openq" that pops another cell and relaxes its neighbours
AStarPop ==
    /\ fn.op = "astar"
    /\ fn.pc = "loop"
    /\ fn.openq # {}
    /\ LET top == HeapTop(fn.openq)
           s   == AStarExpand(fn.cost, fn.walkable, fn.goal, fn.openq, fn.gscore, fn.parent)
       IN  /\ <<top[3], top[4]>> # fn.goal
           /\ fn' = [fn EXCEPT !.openq = s.openq, !.gscore = s.gscore, !.parent = s.parent]
    /\ UNCHANGED <<runVars, ed, gr, lv, pm, nd, srv>>

\* the heap is empty: "no path found", return None
AStarExhausted ==
    /\ fn.op = "astar"
    /\ fn.pc = "loop"
    /\ fn.openq = {}
    /\ fn' = [fn EXCEPT !.pc = "done"]
    /\ UNCHANGED <<runVars, ed, gr, lv, pm, nd, srv>>

NextGridFn == SnapCall \/ AStarBegin \/ AStarGoal \/ AStarPop \/ AStarExhausted
SpecGridFn == InitGridFn /\ [][NextGridFn]_vars

\* astar alone; a call that has started runs on, the interpreter executes the
\* next statement
InitAStar ==
    /\ IdleRun
    /\ ed = <<>>
    /\ \E w \in SmallGrids, a \in Endpoints, b \in Endpoints :
          fn = AStarCall0(w, CostGrid(w, TRUE), a, b)
    /\ gr = <<>>
    /\ lv = <<>>
    /\ pm = <<>>
    /\ nd = <<>>
    /\ srv = <<>>
NextAStar == AStarBegin \/ AStarGoal \/ AStarPop \/ AStarExhausted
SpecAStarLive == InitAStar /\ [][NextAStar]_vars /\ WF_vars(NextAStar)

\* ------------------------------------------------------ the physics grids
\* gr holds semantic, feature_id, walkable and cost from build_physics_arrays
\* on, and the number of edits made so far.
VOID == 0
BUILDING == 1
SIDEWALK == 2
FOOTPATH == 3
PARKING == 4
PLAZA == 5
GREEN == 6
WATER == 7
ROAD == 8
CROSSING == 9

MaxOps == 3

\* the semantic and feature_id grids after the rasterizing of step 2
PaintedGrids ==
    { [semantic   |-> Grid0(<< <<SIDEWALK, BUILDING, BUILDING>>,
                               <<FOOTPATH, BUILDING, ROAD>>,
                               <<PLAZA, CROSSING, PARKING>> >>),
       feature_id |-> Grid0(<< <<-1, 1, 2>>, <<-1, 1, -1>>, <<-1, -1, -1>> >>)],
      [semantic   |-> Grid0(<< <<VOID, GREEN, WATER>>,
                               <<BUILDING, BUILDING, VOID>>,
                               <<ROAD, SIDEWALK, VOID>> >>),
       feature_id |-> Grid0(<< <<-1, -1, -1>>, <<1, 1, -1>>, <<-1, 3, -1>> >>)],
      [semantic   |-> Grid0(<< <<VOID, VOID, VOID>>, <<VOID, VOID, VOID>>,
                               <<VOID, VOID, VOID>> >>),
       feature_id |-> Grid0(<< <<-1, -1, -1>>, <<-1, -1, -1>>, <<-1, -1, -1>> >>)] }

\* build_physics_arrays(H, W): walkable all 0, cost all 255
BuildPhysicsArrays(H, W) ==
    [walkable |-> [y \in 0..(H - 1) |-> [x \in 0..(W - 1) |-> 0]],
     cost     |-> [y \in 0..(H - 1) |-> [x \in 0..(W - 1) |-> 255]]]

\* the grids with every cell of the set cells made walkable at cost c (a uint8)
Opened(walkable, cost, cells, c) ==
    [walkable |-> [y \in DOMAIN walkable |-> [x \in DOMAIN walkable[y] |->
                      IF <<y, x>> \in cells THEN 1 ELSE walkable[y][x]]],
     cost     |-> [y \in DOMAIN cost |-> [x \in DOMAIN cost[y] |->
                      IF <<y, x>> \in cells THEN c % 256 ELSE cost[y][x]]]]

\* set_walk_cost without the line for PARKING's cost
SetWalkCostNoParking(semantic, walkable, cost) ==
    [walkable |-> [y \in DOMAIN walkable |-> [x \in DOMAIN walkable[y] |->
                      IF semantic[y][x] \in {SIDEWALK, FOOTPATH, PLAZA, CROSSING, PARKING}
                      THEN 1 ELSE walkable[y][x]]],
     cost     |-> [y \in DOMAIN cost |-> [x \in DOMAIN cost[y] |->
                      CASE semantic[y][x] = SIDEWALK -> 10
                        [] semantic[y][x] = FOOTPATH -> 12
                        [] semantic[y][x] = PLAZA    -> 8
                        [] semantic[y][x] = CROSSING -> 12
                        [] OTHER -> cost[y][x]]]]

\* set_walk_cost(semantic, walkable, cost)
SetWalkCost(semantic, walkable, cost) ==
    [walkable |-> [y \in DOMAIN walkable |-> [x \in DOMAIN walkable[y] |->
                      IF semantic[y][x] \in {SIDEWALK, FOOTPATH, PLAZA, CROSSING, PARKING}
                      THEN 1 ELSE walkable[y][x]]],
     cost     |-> [y \in DOMAIN cost |-> [x \in DOMAIN cost[y] |->
                      CASE semantic[y][x] = SIDEWALK -> 10
                        [] semantic[y][x] = FOOTPATH -> 12
                        [] semantic[y][x] = PLAZA    -> 8
                        [] semantic[y][x] = CROSSING -> 12
                        [] semantic[y][x] = PARKING  -> 18
                        [] OTHER -> cost[y][x]]]]

RECURSIVE Bresenham(_, _, _, _, _)
\* carve_doorway's bresenham from (y, x) with error term err to (y1, x1)
Bresenham(y, x, err, from, to) ==
    LET dx == Abs(to[2] - from[2])
        dy == 0 - Abs(to[1] - from[1])
        sx == IF from[2] < to[2] THEN 1 ELSE -1
        sy == IF from[1] < to[1] THEN 1 ELSE -1
        e2 == 2 * err
        stepx == e2 >= dy
        err1 == IF stepx THEN err + dy ELSE err
        x1 == IF stepx THEN x + sx ELSE x
        stepy == e2 <= dx
        err2 == IF stepy THEN err1 + dx ELSE err1
        y1 == IF stepy THEN y + sy ELSE y
    IN  IF <<y, x>> = to THEN {<<y, x>>}
        ELSE {<<y, x>>} \cup Bresenham(y1, x1, err2, from, to)

\* the cells carve_doorway opens: the in-grid points of the line and, around
\* each, the offsets range(-width//2, width//2+1) in both directions
CarvedCells(walkable, src, dst, width) ==
    LET line == {c \in Bresenham(src[1], src[2],
                                 Abs(dst[2] - src[2]) - Abs(dst[1] - src[1]), src, dst) :
                   InGrid(walkable, c[1], c[2])}
        offs == ((0 - width) \div 2)..(width \div 2)
    IN  {c \in (DOMAIN walkable) \X (DOMAIN walkable[0]) :
            \E l \in line : (c[1] - l[1]) \in offs /\ (c[2] - l[2]) \in offs}

\* interior and step costs
CostArgs == {0, 10, 254}
CarveEnds == {<<0, 0>>, <<2, 1>>, <<1, 2>>, <<0, 2>>}
WidthArgs == {1, 2, 3}
FidArgs == {1, 2}

InitPhysics ==
    /\ IdleRun
    /\ ed = <<>>
    /\ fn = <<>>
    /\ \E g \in PaintedGrids :
          gr = [semantic |-> g.semantic, feature_id |-> g.feature_id,
                walkable |-> BuildPhysicsArrays(3, 3).walkable,
                cost |-> BuildPhysicsArrays(3, 3).cost, ops |-> 0]
    /\ lv = <<>>
    /\ pm = <<>>
    /\ nd = <<>>
    /\ srv = <<>>

GrSetWalkCost ==
    /\ gr.ops < MaxOps
    /\ LET g == SetWalkCost(gr.semantic, gr.walkable, gr.cost)
       IN  gr' = [gr EXCEPT !.walkable = g.walkable, !.cost = g.cost, !.ops = @ + 1]
    /\ UNCHANGED <<runVars, ed, fn, lv, pm, nd, srv>>

\* step 3, enterable buildings: walkable[interior] = 1; cost[interior] = interior_cost
GrMarkInterior ==
    /\ gr.ops < MaxOps
    /\ \E fid \in FidArgs, interior_cost \in CostArgs :
          LET interior == {c \in (DOMAIN gr.walkable) \X (DOMAIN gr.walkable[0]) :
                              gr.feature_id[c[1]][c[2]] = fid}
              g == Opened(gr.walkable, gr.cost, interior, interior_cost)
          IN  /\ interior # {}
              /\ gr' = [gr EXCEPT !.walkable = g.walkable, !.cost = g.cost, !.ops = @ + 1]
    /\ UNCHANGED <<runVars, ed, fn, lv, pm, nd, srv>>

\* carve_doorway(walkable, cost, src, dst, width, step_cost)
GrCarveDoorway ==
    /\ gr.ops < MaxOps
    /\ \E src \in CarveEnds, dst \in CarveEnds, width \in WidthArgs, step_cost \in CostArgs :
          LET g == Opened(gr.walkable, gr.cost, CarvedCells(gr.walkable, src, dst, width),
                          step_cost)
          IN  gr' = [gr EXCEPT !.walkable = g.walkable, !.cost = g.cost, !.ops = @ + 1]
    /\ UNCHANGED <<runVars, ed, fn, lv, pm, nd, srv>>

NextPhysics == GrSetWalkCost \/ GrMarkInterior \/ GrCarveDoorway
SpecPhysics == InitPhysics /\ [][NextPhysics]_vars

\* ---------------------------------------------------------------- run_live
\* lv holds the run directories under brain_runs with their decisions.jsonl
\* (one category per line, "unknown" for a line without one), run_live's
\* aggregators per run, its baseline aggregator (by run), env_series, the
\* number of poll cycles made and, per run, the known-category entries read
\* in the latest cycle. A cycle takes one second: cycle k runs at elapsed k.
MaxCycles == 3
MaxLog == 2
LiveBins == 2
LiveAgents == 50
MaxLines == 2000
LiveRuns == {"r1", "r2"}
LiveHyp(run) == IF run = "r1" THEN "baseline" ELSE "h001"
LiveCats == {"grocery", "unknown"}
LiveDuration == R(MaxCycles)
LiveTravel == R(2)
LivePathLen == 15
LiveBaseSpend == R(8)

\* _env_key(hypothesis_id)
LiveEnvKey(hyp) == IF hyp = "baseline" THEN "env1" ELSE IF hyp = "h001" THEN "env2" ELSE "env4"

\* _read_jsonl(path, max_lines): the loop breaks after the line of index max_lines
ReadJsonl(log, max_lines) == SubSeq(log, 1, IMin(Len(log), max_lines + 1))

RECURSIVE LiveRecord(_, _, _, _, _, _)
\* "for i, d in enumerate(decs)" from the entry at position i on (i counts from 1
\* here); succ[i] tells whether random.random() < success_rate for entry i
LiveRecord(agg, decs, i, hyp, elapsed, succ) ==
    IF i > Len(decs) THEN agg
    ELSE IF decs[i] = "unknown" THEN LiveRecord(agg, decs, i + 1, hyp, elapsed, succ)
    ELSE LET cat == decs[i]
             decision_time == RMul(Rat(i - 1, IMax(1, Len(decs))),
                                   RMin(elapsed, RMul(LiveDuration, <<4, 5>>)))
             is_scenario_poi == hyp = "h001" /\ cat \in {"grocery", "pharmacy"}
             spend == RMul(LiveBaseSpend, IF is_scenario_poi THEN <<3, 2>> ELSE R(1))
             a1 == RecordDecision(agg, cat, decision_time)
             a2 == IF succ[i]
                   THEN RecordPurchase(
                            RecordArrival(a1, cat, LivePathLen, LiveTravel,
                                          RAdd(decision_time, LiveTravel)),
                            cat, spend, RAdd(decision_time, LiveTravel))
                   ELSE a1
         IN  LiveRecord(a2, decs, i + 1, hyp, elapsed, succ)

\* the known-category entries of a list of decisions
KnownCount(decs) == Cardinality({i \in 1..Len(decs) : decs[i] # "unknown"})

RECURSIVE LivePollRuns(_, _, _, _, _)
\* "for run_id, info in runs.items()" from position k of the listing order on
LivePollRuns(st, order, k, elapsed, succ) ==
    IF k > Len(order) THEN st
    ELSE LET run  == order[k]
             hyp  == LiveHyp(run)
             env  == LiveEnvKey(hyp)
             new  == st.aggs[run] = None
             agg0 == IF new
                     THEN StartRun(NewAggregator(env, LiveBins, LiveDuration), R(0), LiveAgents)
                     ELSE st.aggs[run][1]
             base == IF new /\ env = "env1" THEN Some(run) ELSE st.baseline
             decs == ReadJsonl(st.log[run], MaxLines)
             agg  == LiveRecord(agg0, decs, 1, hyp, elapsed, succ[run])
             aggs == [st.aggs EXCEPT ![run] = Some(agg)]
             sum  == IF env = "env1" \/ base = None THEN SummarizeScenario(agg, None)
                     ELSE SummarizeScenario(agg, aggs[base[1]])
         IN  LivePollRuns([st EXCEPT !.aggs = aggs, !.baseline = base,
                                     !.seen = [@ EXCEPT ![run] = KnownCount(decs)],
                                     !.env_series = [e \in DOMAIN @ \cup {env} |->
                                                        IF e = env THEN sum ELSE @[e]]],
                          order, k + 1, elapsed, succ)

\* the orders in which os.listdir may list the run directories
Listings(dirs) ==
    {o \in SeqsUpTo(dirs, Cardinality(dirs)) :
        Len(o) = Cardinality(dirs) /\ {o[i] : i \in 1..Len(o)} = dirs}

InitLive ==
    /\ IdleRun
    /\ ed = <<>>
    /\ fn = <<>>
    /\ gr = <<>>
    /\ lv = [dirs |-> {}, log |-> [r \in LiveRuns |-> <<>>], aggs |-> [r \in LiveRuns |-> None],
             baseline |-> None, env_series |-> [e \in {} |-> <<>>], cycle |-> 0,
             seen |-> [r \in LiveRuns |-> 0]]
    /\ pm = <<>>
    /\ nd = <<>>
    /\ srv = <<>>

\* the brain server starts a run: its directory appears under brain_runs
LvNewRun(r) ==
    /\ r \notin lv.dirs
    /\ lv' = [lv EXCEPT !.dirs = @ \cup {r}]
    /\ UNCHANGED <<runVars, ed, fn, gr, pm, nd, srv>>

\* the brain server appends one decision to the run's decisions.jsonl
LvAppend(r) ==
    /\ r \in lv.dirs
    /\ Len(lv.log[r]) < MaxLog
    /\ \E cat \in LiveCats : lv' = [lv EXCEPT !.log[r] = Append(@, cat)]
    /\ UNCHANGED <<runVars, ed, fn, gr, pm, nd, srv>>

\* one turn of run_live's while loop
LvPoll ==
    /\ lv.cycle < MaxCycles
    /\ \E order \in Listings(lv.dirs), succ \in [LiveRuns -> [1..MaxLog -> BOOLEAN]] :
          \* only the draws of entries that are read matter
          /\ \A r \in LiveRuns : \A i \in 1..MaxLog :
                (r \notin lv.dirs \/ i > Len(lv.log[r]) \/ lv.log[r][i] = "unknown")
                    => ~succ[r][i]
          /\ lv' = [LivePollRuns(lv, order, 1, R(lv.cycle), succ) EXCEPT !.cycle = lv.cycle + 1]
    /\ UNCHANGED <<runVars, ed, fn, gr, pm, nd, srv>>

NextLive ==
    \/ \E r \in LiveRuns : LvNewRun(r)
    \/ \E r \in LiveRuns : LvAppend(r)
    \/ LvPoll
SpecLive == InitLive /\ [][NextLive]_vars

\* --------------------------------------- the same events in two orders
\* pm holds a list of record_* calls, a permutation of it, and two
\* aggregators: a is fed the calls in the list's order, b in the permuted
\* order; ka and kb count the calls made on each. The sums of floats round.
OrderEvents ==
    { [kind |-> "decision", category |-> "cafe", t_s |-> R(0), path_len |-> 0,
       travel |-> R(0), amount |-> R(0)],
      [kind |-> "decision", category |-> "grocery", t_s |-> <<3, 2>>, path_len |-> 0,
       travel |-> R(0), amount |-> R(0)],
      [kind |-> "arrival", category |-> "cafe", t_s |-> R(0), path_len |-> 10,
       travel |-> <<129, 2>>, amount |-> R(0)],
      [kind |-> "arrival", category |-> "cafe", t_s |-> R(0), path_len |-> 50,
       travel |-> <<1, 8>>, amount |-> R(0)],
      [kind |-> "arrival", category |-> "grocery", t_s |-> <<3, 2>>, path_len |-> 10,
       travel |-> <<1, 8>>, amount |-> R(0)],
      [kind |-> "arrival", category |-> "grocery", t_s |-> R(0), path_len |-> 10,
       travel |-> <<1, 8>>, amount |-> R(0)],
      [kind |-> "arrival", category |-> "cafe", t_s |-> <<3, 2>>, path_len |-> 50,
       travel |-> <<129, 2>>, amount |-> R(0)],
      [kind |-> "purchase", category |-> "cafe", t_s |-> <<1, 2>>, path_len |-> 0,
       travel |-> R(0), amount |-> <<129, 2>>],
      [kind |-> "purchase", category |-> "cafe", t_s |-> <<1, 2>>, path_len |-> 0,
       travel |-> R(0), amount |-> <<1, 8>>],
      [kind |-> "purchase", category |-> "grocery", t_s |-> <<3, 2>>, path_len |-> 0,
       travel |-> R(0), amount |-> R(5)] }

Perms(n) == {f \in [1..n -> 1..n] : \A i, j \in 1..n : f[i] = f[j] => i = j}

InitOrder ==
    /\ IdleRun
    /\ ed = <<>>
    /\ fn = <<>>
    /\ gr = <<>>
    /\ lv = <<>>
    /\ nd = <<>>
    /\ srv = <<>>
    /\ \E n \in 1..MaxEvents :
          \E es \in [1..n -> OrderEvents], perm \in Perms(n) :
            pm = [events |-> es, perm |-> perm,
                  a |-> StartRun(NewAggregator("env1", 2, R(2)), R(0), 1),
                  b |-> StartRun(NewAggregator("env1", 2, R(2)), R(0), 1),
                  ka |-> 0, kb |-> 0, pc |-> "record", sa |-> None, sb |-> None]

\* the next call to make on the aggregator of the given side
PmNextEvent(side) ==
    IF side = "a" THEN pm.events[pm.ka + 1] ELSE pm.events[pm.perm[pm.kb + 1]]
PmPending(side) ==
    /\ pm.pc = "record"
    /\ IF side = "a" THEN pm.ka < Len(pm.events) ELSE pm.kb < Len(pm.events)
PmAfter(side, agg) ==
    IF side = "a" THEN [pm EXCEPT !.a = agg, !.ka = @ + 1]
    ELSE [pm EXCEPT !.b = agg, !.kb = @ + 1]
PmAgg(side) == IF side = "a" THEN pm.a ELSE pm.b

PmRecordDecision(side) ==
    /\ PmPending(side)
    /\ PmNextEvent(side).kind = "decision"
    /\ LET e == PmNextEvent(side)
       IN  pm' = PmAfter(side, RecordDecision(PmAgg(side), e.category, e.t_s))
    /\ UNCHANGED <<runVars, ed, fn, gr, lv, nd, srv>>

PmRecordArrival(side) ==
    /\ PmPending(side)
    /\ PmNextEvent(side).kind = "arrival"
    /\ LET e == PmNextEvent(side)
       IN  pm' = PmAfter(side, RecordArrivalIn(FAdd, PmAgg(side), e.category, e.path_len,
                                               e.travel, e.t_s))
    /\ UNCHANGED <<runVars, ed, fn, gr, lv, nd, srv>>

PmRecordPurchase(side) ==
    /\ PmPending(side)
    /\ PmNextEvent(side).kind = "purchase"
    /\ LET e == PmNextEvent(side)
       IN  pm' = PmAfter(side, RecordPurchaseIn(FAdd, PmAgg(side), e.category, e.amount,
                                                e.t_s))
    /\ UNCHANGED <<runVars, ed, fn, gr, lv, nd, srv>>

\* summarize_scenario(None) on both aggregators once every call was made
PmSummarize ==
    /\ pm.pc = "record"
    /\ pm.ka = Len(pm.events)
    /\ pm.kb = Len(pm.events)
    /\ pm' = [pm EXCEPT !.pc = "done", !.sa = Some(SummarizeScenario(pm.a, None)),
                        !.sb = Some(SummarizeScenario(pm.b, None))]
    /\ UNCHANGED <<runVars, ed, fn, gr, lv, nd, srv>>

NextOrder ==
    \/ \E side \in {"a", "b"} : PmRecordDecision(side)
    \/ \E side \in {"a", "b"} : PmRecordArrival(side)
    \/ \E side \in {"a", "b"} : PmRecordPurchase(side)
    \/ PmSummarize
SpecOrder == InitOrder /\ [][NextOrder]_vars

\* ------------------------------------------ seed_needs, decay_and_reinforce
\* An agent's needs from the base map on: seed_needs once, then
\* decay_and_reinforce call after call on the map the call before returned.
\* nd keeps the map handed to the last call as it is after the call (arg) and
\* as it was before it (was).
MaxDecays == 3

\* base needs: the runner's (experiment_runner.py:104), an empty map, one at
\* the ends of [0, 1]
BaseNeeds ==
    { [k \in {"caffeine", "social", "hunger", "grocery"} |->
          IF k = "grocery" THEN <<3, 10>> ELSE <<2, 5>>],
      [k \in {} |-> R(0)],
      [k \in {"cafe", "grocery"} |-> IF k = "cafe" THEN R(1) ELSE R(0)] }

\* the scenarios the biases are built from: the files, and one whose
\* tags.bias holds weights outside [0, 1]
NeedScenarios ==
    {ScenarioFile(p) : p \in {Baseline, H001, H002, H003, H004}}
    \cup {[id |-> "wide", poi_add |-> <<>>, poi_update |-> <<>>,
           bias |-> << <<"cafe", <<3, 2>> >>, <<"retail", <<-1, 2>> >> >>]}

NeedRoles == {"student", "resident", "worker", "visitor"}
DtArgs == {R(0), <<1, 2>>, R(5), R(60)}

InitNeeds ==
    /\ IdleRun
    /\ ed = <<>>
    /\ fn = <<>>
    /\ gr = <<>>
    /\ lv = <<>>
    /\ pm = <<>>
    /\ srv = <<>>
    /\ \E base \in BaseNeeds, sc \in NeedScenarios, role \in NeedRoles :
          nd = [pc |-> "base", biases |-> BuildNeedBiases(sc), role |-> role,
                needs |-> base, was |-> base, arg |-> base, decays |-> 0]

\* seeded_needs = seed_needs(base_needs, biases, role)
NdSeed ==
    /\ nd.pc = "base"
    /\ nd' = [nd EXCEPT !.pc = "seeded",
                        !.needs = SeedNeeds(nd.needs, nd.biases, nd.role),
                        !.was = nd.needs,
                        !.arg = SeedNeedsArg(nd.needs, nd.biases, nd.role)]
    /\ UNCHANGED <<runVars, ed, fn, gr, lv, pm, srv>>

\* needs = decay_and_reinforce(needs, dt, biases)
NdDecay ==
    /\ nd.decays < MaxDecays
    /\ \E dt \in DtArgs :
          nd' = [nd EXCEPT !.pc = "decayed",
                          !.needs = DecayAndReinforce(nd.needs, dt, nd.biases),
                          !.was = nd.needs,
                          !.arg = DecayAndReinforceArg(nd.needs, dt, nd.biases),
                          !.decays = @ + 1]
    /\ UNCHANGED <<runVars, ed, fn, gr, lv, pm, srv>>

NextNeeds == NdSeed \/ NdDecay
SpecNeeds == InitNeeds /\ [][NextNeeds]_vars

\* ------------------------------------- the brain server's run lifecycle
\* The endpoints are plain functions, which the framework runs on the threads
\* of a pool: requests overlap, a thread can be switched between any two
\* statements and inside "RUNS[id]['decisions'] += n". srv holds RUNS (the ids
\* registered), dict (the decisions field of each run's dict, which outlives
\* its entry in RUNS), file (the lines of decisions.jsonl), summary (the
\* decisions field of summary.json), the open and finished /decide requests and
\* the /end_run request of each run; completed and endedAt record the decisions
\* returned so far and those returned when the run was ended.
RunIds == {1, 2}
MaxDecides == 3
MaxBatch == 2

NewServer ==
    [RUNS |-> {}, started |-> {},
     dict |-> [r \in RunIds |-> 0], file |-> [r \in RunIds |-> 0],
     summary |-> [r \in RunIds |-> None],
     reqs |-> <<>>,
     ends |-> [r \in RunIds |-> [pc |-> "none", found |-> FALSE]],
     completed |-> [r \in RunIds |-> 0], endedAt |-> [r \in RunIds |-> 0]]

InitServer ==
    /\ IdleRun
    /\ ed = <<>>
    /\ fn = <<>>
    /\ gr = <<>>
    /\ lv = <<>>
    /\ pm = <<>>
    /\ nd = <<>>
    /\ srv = NewServer

\* POST /start_run: a fresh id is registered with decisions 0
SrvStartRun ==
    /\ \E r \in RunIds \ srv.started :
          srv' = [srv EXCEPT !.RUNS = @ \cup {r}, !.started = @ \cup {r},
                             !.dict[r] = 0]
    /\ UNCHANGED <<runVars, ed, fn, gr, lv, pm, nd>>

\* POST /decide arrives for a run id the client was given: run = RUNS.get(req.runId)
SrvDecideBegin ==
    /\ Len(srv.reqs) < MaxDecides
    /\ \E r \in srv.started, n \in 1..MaxBatch :
          srv' = [srv EXCEPT !.reqs = Append(@,
                     [run |-> r, n |-> n, found |-> r \in srv.RUNS, pc |-> "loop",
                      out |-> 0, tmp |-> 0])]
    /\ UNCHANGED <<runVars, ed, fn, gr, lv, pm, nd>>

\* the loop over req.agents and the append to decisions.jsonl; without a run the
\* response is returned
SrvDecideLoop ==
    /\ \E i \in 1..Len(srv.reqs) :
      /\ srv.reqs[i].pc = "loop"
      /\ LET q == srv.reqs[i]
         IN  srv' = [srv EXCEPT !.reqs[i].out = q.n,
                                !.reqs[i].pc = IF q.found THEN "count" ELSE "returned",
                                !.file[q.run] = @ + q.n,
                                !.completed[q.run] = IF q.found THEN @ ELSE @ + q.n]
    /\ UNCHANGED <<runVars, ed, fn, gr, lv, pm, nd>>

\* "if run: RUNS[req.runId]['decisions'] += len(out)", its read: RUNS[req.runId]
\* raises KeyError when the id is no longer registered
SrvDecideRead ==
    /\ \E i \in 1..Len(srv.reqs) :
      /\ srv.reqs[i].pc = "count"
      /\ LET q == srv.reqs[i]
         IN  srv' = IF q.run \in srv.RUNS
                    THEN [srv EXCEPT !.reqs[i].pc = "store", !.reqs[i].tmp = srv.dict[q.run]]
                    ELSE [srv EXCEPT !.reqs[i].pc = "raised"]
    /\ UNCHANGED <<runVars, ed, fn, gr, lv, pm, nd>>

\* its store into the run's dict, and the return of DecideResp(decisions=out)
SrvDecideStore ==
    /\ \E i \in 1..Len(srv.reqs) :
      /\ srv.reqs[i].pc = "store"
      /\ LET q == srv.reqs[i]
         IN  srv' = [srv EXCEPT !.reqs[i].pc = "returned",
                                !.dict[q.run] = q.tmp + q.n,
                                !.completed[q.run] = @ + q.n]
    /\ UNCHANGED <<runVars, ed, fn, gr, lv, pm, nd>>

\* POST /end_run: run = RUNS.pop(req.runId, None)
EndRunPop ==
    /\ \E r \in srv.started :
          /\ srv.ends[r].pc = "none"
          /\ srv' = [srv EXCEPT !.RUNS = @ \ {r},
                                !.ends[r] = [pc |-> "popped", found |-> r \in srv.RUNS],
                                !.endedAt[r] = srv.completed[r]]
    /\ UNCHANGED <<runVars, ed, fn, gr, lv, pm, nd>>

\* the summary is built from the popped dict and written to summary.json
EndRunWrite ==
    /\ \E r \in RunIds :
          /\ srv.ends[r].pc = "popped"
          /\ srv' = [srv EXCEPT !.ends[r].pc = "written",
                                !.summary[r] = Some(IF srv.ends[r].found THEN srv.dict[r]
                                                    ELSE 0)]
    /\ UNCHANGED <<runVars, ed, fn, gr, lv, pm, nd>>

NextServer ==
    \/ SrvStartRun
    \/ SrvDecideBegin
    \/ SrvDecideLoop
    \/ SrvDecideRead
    \/ SrvDecideStore
    \/ EndRunPop
    \/ EndRunWrite

SpecServer == InitServer /\ [][NextServer]_vars

\* ================================================================ claims

IsBaseline(w) == StartsWith(PathOf(w), "baseline")
Started(w) == wk[w].metrics # None
AggOf(w) == wk[w].metrics[1]

\* C1: in run_experiment, whenever the scenario files contain a baseline that
\* runs to its end, whatever the order in which the workers complete, every
\* summarize_scenario call on a non-baseline aggregator is given the baseline's
\* aggregator as reference (never no reference), and the call on the baseline's
\* aggregator is given no reference.
C1_BaselineReference ==
    (\E b \in Submitted : IsBaseline(b) /\ wk[b].pc # "failed") =>
        \A k \in 1..Len(rn.calls) :
            LET c == rn.calls[k]
            IN  IF IsBaseline(c.worker) THEN c.baseline = None
                ELSE c.baseline # None /\ IsBaseline(c.baseline[1])

\* C2: two executions of run_experiment with the same seed and scenario files
\* record, for each scenario, the same sequence of decisions and arrivals (agent
\* id and category, in order) however the workers interleave: twin workers that
\* returned after the same number of ticks hold equal event sequences.
C2_SameLogs ==
    \A w \in Workers :
        (/\ wk[w].run = 1
         /\ wk[w].pc = "done"
         /\ wk[Twin(w)].pc = "done"
         /\ wk[w].step_count = wk[Twin(w)].step_count)
        => wk[w].log = wk[Twin(w)].log

\* C3: every write of analytics.json is atomic: a reader that opens the file at
\* any moment never observes an empty or partially written document.
C3_AtomicWrite == fs.seen \in {"nothing", "complete"}

\* C4: the final document is composed and written only once every submitted
\* worker has finished (returned or raised), so no worker is still recording when
\* build_final_analytics is called, and an aggregator is summarized only when the
\* worker that owns it has finished.
C4_AwaitsWorkers ==
    [][ /\ (rn.analytics = None /\ rn'.analytics # None) =>
            \A w \in Submitted : Finished(w)
        /\ (fs # fs' /\ fs'.of # fs.of) => \A w \in Submitted : Finished(w)
        /\ Len(rn'.calls) > Len(rn.calls) =>
            Finished(rn'.calls[Len(rn'.calls)].worker) ]_vars

\* C4 (its case): the document was written after two aggregators were summarized
C4_Written == rn.pc = "done" /\ fs.exists /\ Len(rn.calls) >= 2

\* arr[i] >= 0 and ahead + dec[from..i] >= arr[from..i] (sums) for every bin i in from..n-1
RECURSIVE ArrivalsLag(_, _, _, _, _)
ArrivalsLag(dec, arr, from, n, ahead) ==
    \/ from >= n
    \/ /\ arr[from] >= 0
       /\ ahead + dec[from] >= arr[from]
       /\ ArrivalsLag(dec, arr, from + 1, n, ahead + dec[from] - arr[from])

\* C5 (as stated): for every aggregator and every bin i, decisions[i] >=
\* arrivals[i] >= 0 in every state of the simulation loop.
C5_PerBin ==
    \A w \in Workers : Started(w) =>
        \A i \in 0..(AggOf(w).bins - 1) :
            AggOf(w).decisions[i] >= AggOf(w).arrivals[i] /\ AggOf(w).arrivals[i] >= 0

\* C5 (amended): for every aggregator every arrivals[i] >= 0 and, for every bin
\* i, the decisions recorded in bins 0..i are at least the arrivals recorded in
\* bins 0..i: an arrival is binned at its decision's time plus the travel time,
\* so it can fall in a later bin than its decision but never in an earlier one.
C5_PrefixSums ==
    \A w \in Workers : Started(w) =>
        ArrivalsLag(AggOf(w).decisions, AggOf(w).arrivals, 0, AggOf(w).bins, 0)

\* C5 (its case): an arrival was recorded in a bin later than its decision's
C5_LateArrival ==
    \E w \in Workers :
        /\ Started(w)
        /\ \E i \in 0..(AggOf(w).bins - 1) : AggOf(w).arrivals[i] > AggOf(w).decisions[i]

\* C6: summarizing a started aggregator against itself gives cost 0 in every bin,
\* also in the bins where nothing was spent.
C6_SelfCostZero ==
    m.agent_count > 0 =>
        \A j \in 1..m.bins : YIsZero(SummarizeScenario(m, Some(m)).cost[j].y)

\* C7: in every aggregator state reachable after construction summarize_scenario
\* returns without raising and every efficiency value lies in [0, 100].
C7_SummarizeTotal ==
    LET s == SummarizeScenario(m, None)
    IN  /\ s.raised = ""
        /\ \A j \in 1..m.bins : YNonNeg(s.efficiency[j].y) /\ YLeInt(s.efficiency[j].y, 100)

\* C8: when one scenario worker fails, the others still run to completion and
\* contribute their series, the final document is still written, and the failed
\* scenario's env key is present in every metric with an empty or zero-filled
\* series.
C8_FailureIsolated ==
    (rn.pc = "done" /\ Cardinality({w \in Submitted : wk[w].pc = "failed"}) = 1) =>
        /\ \A w \in Submitted : wk[w].pc # "failed" =>
              /\ wk[w].pc = "done"
              /\ PathOf(w) \in rn.results
              /\ EnvKeyFor(PathOf(w)) \in DOMAIN rn.env_series
        /\ fs.exists /\ ReadFile(fs) = "complete" /\ fs.doc = rn.analytics
        /\ \A w \in Submitted : wk[w].pc = "failed" =>
              \A mt \in MetricNames :
                 LET series == rn.analytics[1].metrics[mt][EnvKeyFor(PathOf(w))]
                 IN  \A k \in 1..Len(series) : YIsZero(series[k].y)

\* the oracle outcomes the decider has to treat as a failure
OracleFailed(o) ==
    \/ o.kind \in {"error", "garbage"}
    \/ o.category = None
    \/ o.category[1] \notin Categories

\* C9: in /decide, for every oracle outcome that is a failure (an exception or
\* timeout, output that is no valid JSON or lacks a category, a category outside
\* the known set) the decision returned for the agent is the one of the
\* deterministic highest-need rule, and every returned category is in the known
\* category set.
C9_FallbackOnFailure ==
    \A k \in 1..Len(dc.out) :
        /\ OracleFailed(dc.oracle[k]) =>
              dc.out[k].category = FallbackCategory(dc.agents[k].needs)
        /\ dc.out[k].category \in Categories

\* C10: in the simulation loop no arrival and no purchase is recorded for a
\* category none of whose POIs is reachable from the agent's position (A* finds no
\* path to any of them, or there is none); the decision is recorded.
C10_NoArrivalUnreachable ==
    \A w \in Workers :
        \A k \in 1..Len(wk[w].log) :
            wk[w].log[k][1] \in {"arrival", "purchase"} =>
                NearestPathLen(wk[w].pois, BaseWalkable, BaseCost, wk[w].log[k][3],
                               AgentStart) # None

\* A pois.json holds only POIs whose snapped cell is null or a walkable cell
\* of the grid
SnappedOk(file, walkable) ==
    \A k \in 1..Len(file) :
        \/ file[k].snapped = <<"null">>
        \/ LET y == file[k].snapped[2][2]
               x == file[k].snapped[3][2]
           IN  InGrid(walkable, y, x) /\ walkable[y][x] = 1

\* C11: every POI written to pois.json, by step 3 or appended by
\* apply_scenario_to_assets for a poi_add (absolute or anchored, in or out of
\* bounds, with or without a walkable cell in radius), has snapped = null or a
\* snapped cell inside the grid with walkable[snapped] = 1.
C11_SnappedWalkable ==
    /\ SnappedOk(ed.base.pois[1], ed.base.walkable[1])
    /\ ed.pc = "done" => SnappedOk(ed.out.pois[1], ed.out.walkable[1])

\* Chebyshev distance between two cells
Cheb(a, b) == IMax(Abs(a[1] - b[1]), Abs(a[2] - b[2]))
WalkableCells(walkable) ==
    {c \in (DOMAIN walkable) \X (DOMAIN walkable[0]) : walkable[c[1]][c[2]] = 1}
SnapReturned == fn # <<>> /\ fn.op = "snap" /\ fn.pc = "done"

\* C12: snap_to_walkable, for every grid, integer target (also outside the
\* grid) and radius r >= 0, returns none or a cell q in the grid that is
\* walkable and within Chebyshev distance r of the target; a walkable target
\* is returned itself; otherwise no walkable cell is strictly closer to the
\* target than the returned one.
C12_SnapNearest ==
    SnapReturned =>
        LET t  == <<fn.iy, fn.ix>>
            ws == WalkableCells(fn.walkable)
        IN  /\ fn.result # None =>
                  /\ fn.result[1] \in ws
                  /\ Cheb(fn.result[1], t) <= fn.max_r
                  /\ \A c \in ws : Cheb(c, t) >= Cheb(fn.result[1], t)
            /\ t \in ws => fn.result = Some(t)

AStarReturned == fn # <<>> /\ fn.op = "astar" /\ fn.pc = "done"

\* C13: a path returned by astar(cost, walkable, a, b) has first cell a and
\* last cell b, every cell in the grid and walkable, every two consecutive
\* cells 8-connected and distinct; when a = b the path is the single cell.
C13_PathWellFormed ==
    (AStarReturned /\ fn.result # None) =>
        LET p == fn.result[1]
        IN  /\ Len(p) >= 1
            /\ p[1] = fn.start
            /\ p[Len(p)] = fn.goal
            /\ \A k \in 1..Len(p) : p[k] \in WalkableCells(fn.walkable)
            /\ \A k \in 1..(Len(p) - 1) : Cheb(p[k], p[k + 1]) = 1
            /\ fn.start = fn.goal => Len(p) = 1

\* a returned path that turns a corner, and one for a = b
C13_PathFound ==
    /\ AStarReturned
    /\ fn.result # None
    /\ Len(fn.result[1]) >= 3

RECURSIVE Flood(_, _)
\* the walkable cells joined to the set S by 8-connected steps over walkable cells
Flood(walkable, S) ==
    LET T == S \cup {c \in WalkableCells(walkable) : \E d \in S : Cheb(c, d) = 1}
    IN  IF T = S THEN S ELSE Flood(walkable, T)

\* the three cases in which astar has no path to return
NoPathCase(walkable, a, b) ==
    \/ ~InGrid(walkable, a[1], a[2])
    \/ ~InGrid(walkable, b[1], b[2])
    \/ a \notin WalkableCells(walkable)
    \/ b \notin WalkableCells(walkable)
    \/ b \notin Flood(walkable, {a})

\* C14: astar terminates, and returns none exactly when an endpoint is out of
\* bounds, an endpoint is not walkable, or the goal is not connected to the
\* start over walkable cells; in every other case it returns a path.
C14_AStarTotal ==
    /\ [](AStarReturned => (fn.result = None <=> NoPathCase(fn.walkable, fn.start, fn.goal)))
    /\ (fn.op = "astar") ~> AStarReturned

\* a call between two walkable cells that no walkable route joins has returned
C14_Disconnected ==
    /\ AStarReturned
    /\ fn.start \in WalkableCells(fn.walkable)
    /\ fn.goal \in WalkableCells(fn.walkable)
    /\ fn.goal \notin Flood(fn.walkable, {fn.start})
    /\ fn.result = None

EdDone == ed # <<>> /\ ed.pc = "done"

\* C15: a scenario whose poi_add and poi_update are both empty makes
\* apply_scenario_to_assets write a POI list structurally equal to the
\* baseline's: the same POIs in the same order with the same field values.
C15_EmptyScenarioCopies ==
    (EdDone /\ ed.sc.poi_add = <<>> /\ ed.sc.poi_update = <<>>) =>
        ed.out.pois = ed.base.pois

\* the empty scenario was applied over an output directory that held another
\* pois.json, from a baseline with a POI whose snapped cell is null
C15_EmptyApplied ==
    /\ EdDone
    /\ ed.sc.poi_add = <<>>
    /\ ed.sc.poi_update = <<>>
    /\ ed.base.walkable = Some(BlockedWalkable)
    /\ Len(ed.out.pois[1]) = 2

\* the POIs the output starts from: the baseline's, then one per poi_add entry
EdOriginal ==
    JsonLoad(ed.base.pois[1]) \o
        [i \in 1..Len(ed.sc.poi_add) |-> AddedPoi(ed.sc.poi_add[i], ed.base.walkable[1])]
\* the POIs the j-th update was applied to, as the call went
EdHits(j) == ed.trace[Len(ed.sc.poi_add) + j][3]
\* the updates that wrote key x of the POI at position k
EdWriters(k, x) ==
    {j \in 1..Len(ed.sc.poi_update) : k \in EdHits(j) /\ x \in DOMAIN ed.sc.poi_update[j].set}

\* C16: apply_scenario_to_assets applies all poi_add entries in input order
\* before any poi_update entry, and the updates in input order; an update
\* that matches an added POI modifies it; when two updates set the same field
\* of a POI the later one wins; the output is the baseline POIs in their
\* order followed by the added POIs in their order.
C16_AddsThenUpdates ==
    ed # <<>> =>
    LET adds == ed.sc.poi_add
        upds == ed.sc.poi_update
    IN  /\ \A i \in 1..Len(ed.trace) :
              IF i <= Len(adds) THEN ed.trace[i][1] = "add" /\ ed.trace[i][2] = i
              ELSE ed.trace[i][1] = "update" /\ ed.trace[i][2] = i - Len(adds)
        /\ EdDone =>
              LET out == JsonLoad(ed.out.pois[1])
              IN  /\ Len(ed.trace) = Len(adds) + Len(upds)
                  /\ Len(out) = Len(EdOriginal)
                  /\ \A k \in 1..Len(out) :
                        /\ \A j \in 1..Len(upds) :
                              ( /\ Matches(EdOriginal[k], upds[j].match)
                                /\ \A x \in DOMAIN upds[j].match :
                                      \A i \in 1..(j - 1) : i \notin EdWriters(k, x) )
                              => k \in EdHits(j)
                        /\ \A x \in DOMAIN out[k] :
                              IF EdWriters(k, x) = {}
                              THEN x \in DOMAIN EdOriginal[k] /\ out[k][x] = EdOriginal[k][x]
                              ELSE x # "tags" =>
                                   LET last == CHOOSE j \in EdWriters(k, x) :
                                                   \A i \in EdWriters(k, x) : i <= j
                                   IN  out[k][x] = upds[last].set[x]
                        /\ DOMAIN EdOriginal[k] \subseteq DOMAIN out[k]

\* a call has finished in which two updates wrote the name of an added POI
C16_AddedUpdatedTwice ==
    /\ EdDone
    /\ \E k \in (Len(ed.base.pois[1]) + 1)..Len(ed.pois) :
          Cardinality(EdWriters(k, "name")) = 2

GridFiles == {"semantic", "walkable", "cost", "feature_id"}

\* C17: when out_dir is not the baseline directory, apply_scenario_to_assets
\* leaves the baseline's pois.json and grid files as they were, also when an
\* update matches baseline POIs, and the semantic, walkable, cost and
\* feature_id grids of the output directory are identical to the baseline's.
C17_BaselineUntouched ==
    [][ /\ ed'.base = ed.base
        /\ (ed'.pc = "done" /\ ~ed.same) =>
              \A g \in GridFiles : ed'.out[g] = ed.base[g] ]_vars

\* a call has finished whose output directory held other grids before and
\* in which an update was applied to a baseline POI
C17_BaselinePoiUpdated ==
    /\ EdDone
    /\ ed.base.walkable = Some(BaseWalkable)
    /\ \E j \in 1..Len(ed.sc.poi_update) : 1 \in EdHits(j)
    /\ JsonLoad(ed.out.pois[1])[1].name # JsonLoad(ed.base.pois[1])[1].name

\* C18: in every grid state reachable from build_physics_arrays by any
\* sequence of set_walk_cost, marking a building interior enterable and
\* carve_doorway, with interior and step costs below 255, each cell has
\* walkable = 1 exactly when its cost is below 255.
C18_WalkableIffCost ==
    gr # <<>> =>
        \A y \in DOMAIN gr.walkable : \A x \in DOMAIN gr.walkable[y] :
            (gr.walkable[y][x] = 1) <=> (gr.cost[y][x] < 255)

\* after set_walk_cost, an opened interior and a carved doorway a building
\* cell is walkable, a road cell is walkable through a doorway, and a cell is
\* still blocked
C18_AllEditsMade ==
    /\ gr # <<>>
    /\ gr.ops >= 3
    /\ gr.semantic[0][1] = BUILDING
    /\ gr.walkable[0][1] = 1
    /\ gr.cost[0][1] = 254
    /\ gr.walkable[1][2] = 1
    /\ gr.walkable[2][2] = 1
    /\ gr.cost[2][2] = 18
    /\ gr.walkable[0][2] = 0

\* C19: in run_live, after every poll cycle, the total of a run's aggregator's
\* decisions over all bins equals the number of entries with a known category
\* in that run's log as read in that cycle: each entry is counted once however
\* many cycles have read it.
C19_LiveCountsOnce ==
    lv # <<>> =>
        \A r \in LiveRuns :
            lv.aggs[r] # None =>
                SumTo(lv.aggs[r][1].decisions, lv.aggs[r][1].bins) = lv.seen[r]

\* C20: the aggregator's state and its summaries depend only on the multiset
\* of recorded events, not on the order of the record_* calls: two
\* aggregators fed the same calls in permuted orders have equal per-bin
\* counters and equal summarize_scenario results.
C20_OrderIndependent ==
    (pm # <<>> /\ pm.pc = "done") => (pm.a = pm.b /\ pm.sa = pm.sb)

\* C21: for an experiment of a baseline plus three distinct non-baseline
\* scenarios that all complete, the final document carries each scenario's series
\* under a key of its own among env1..env4 (none is overwritten by another's),
\* env1 holds the baseline's series, every series has length bins, and
\* metadata.data_points equals bins.
BaselinePlusThree ==
    /\ Len(cfg.paths) = 4
    /\ Cardinality({i \in 1..4 : StartsWith(cfg.paths[i], "baseline")}) = 1
    /\ \A i, j \in 1..4 : i # j => cfg.paths[i] # cfg.paths[j]
\* the series summarize_scenario returned for worker w's aggregator
SeriesOf(w) ==
    LET k == CHOOSE i \in 1..Len(rn.calls) : rn.calls[i].worker = w
        arg == rn.calls[k].baseline
    IN  SummarizeScenario(AggOf(w), IF arg = None THEN None ELSE Some(AggOf(arg[1])))
C21_OwnEnvKeys ==
    (rn.pc = "done" /\ BaselinePlusThree /\ \A w \in Submitted : wk[w].pc = "done") =>
        LET doc == rn.analytics[1]
        IN  /\ \E f \in [Submitted -> EnvKeys] :
                  /\ \A v, w \in Submitted : v # w => f[v] # f[w]
                  /\ \A w \in Submitted :
                        /\ IsBaseline(w) => f[w] = "env1"
                        /\ \A mt \in MetricNames : doc.metrics[mt][f[w]] = SeriesOf(w)[mt]
            /\ \A mt \in MetricNames : \A e \in EnvKeys : Len(doc.metrics[mt][e]) = Bins
            /\ doc.metadata.data_points = Bins

\* C22: scenario validation rejects every scenario that holds a poi_add entry
\* with neither both absolute coordinates nor an anchor, and every scenario that
\* holds an empty poi_update entry (empty match or empty set); such a scenario is
\* never applied: the call does not get past the scenario read.
EmptyUpdate(upd) ==
    \/ "match" \notin DOMAIN upd \/ "set" \notin DOMAIN upd
    \/ DOMAIN upd.match = {} \/ DOMAIN upd.set = {}
MustReject(sc) ==
    \/ \E i \in 1..Len(sc.poi_add) : sc.poi_add[i].abs = None /\ sc.poi_add[i].anchor = None
    \/ \E j \in 1..Len(sc.poi_update) : EmptyUpdate(sc.poi_update[j])
C22_InvalidRejected ==
    (ed # <<>> /\ MustReject(ed.sc)) =>
        /\ ed.pc \in {"call", "raised"}
        /\ ed.pois = <<>>
        /\ ed.same \/ ed.out.pois \in {EmptyDir.pois, StaleDir.pois}

\* C23: every need value stays in [0, 1] after every write: for base needs in
\* [0, 1], any bias map built by build_need_biases_for_scenario, any role and any
\* dt >= 0, every value returned by seed_needs and by any number of successive
\* decay_and_reinforce calls lies in [0, 1], and the map handed to the call is
\* left as it was.
InUnit(q) == RLe(R(0), q) /\ RLe(q, R(1))
C23_NeedsInUnit ==
    nd # <<>> =>
        /\ \A i \in 1..Len(nd.biases) : InUnit(nd.biases[i][2])
        /\ \A k \in DOMAIN nd.needs : InUnit(nd.needs[k])
        /\ nd.arg = nd.was
\* C23 (its case): a bias of weight above 0.8 was seeded and the map then
\* decayed twice, the second time with a dt that wears every value down
C23_SeededAndDecayed ==
    /\ nd # <<>>
    /\ nd.decays >= 2
    /\ \E i \in 1..Len(nd.biases) : RLt(<<4, 5>>, nd.biases[i][2])
    /\ \E k \in DOMAIN nd.needs : nd.needs[k] = R(0)
    /\ \E k \in DOMAIN nd.was : RLt(R(0), nd.was[k])

\* C24: for every timestamp t (negative, zero, within the run, beyond
\* duration_s) and all constructor arguments, the bin used by record_decision,
\* record_arrival and record_purchase is clamp(floor(t / bin_width), 0, bins - 1);
\* it is a valid index, so the record call does not fail, and every counter
\* vector keeps length bins.
ClampBin(a, t) == IMax(0, IMin(a.bins - 1, RFloor(RDiv(t, a.bin_w))))
BinIdxCalled == fn # <<>> /\ fn.op = "_bin_idx"
C24_BinClamped ==
    /\ BinIdxCalled => fn.idx = ClampBin(m, fn.t_s) /\ fn.idx \in 0..(m.bins - 1)
    /\ DOMAIN m.decisions = 0..(m.bins - 1)
    /\ DOMAIN m.arrivals = 0..(m.bins - 1)
    /\ DOMAIN m.walk_cells = 0..(m.bins - 1)
    /\ DOMAIN m.travel_time = 0..(m.bins - 1)
    /\ DOMAIN m.spend = 0..(m.bins - 1)
\* C24 (its case): after an earlier event, an aggregator of one bin recorded an
\* event at a timestamp beyond its duration, or one of several bins, its last
\* bin in use, an event at a negative timestamp
C24_BeyondDuration ==
    /\ BinIdxCalled /\ nev >= 2
    /\ \/ m.bins = 1 /\ m.duration_s = R(1) /\ RLt(m.duration_s, fn.t_s)
       \/ m.bins >= 2 /\ RLt(fn.t_s, R(0)) /\ m.decisions[m.bins - 1] >= 1

\* C25: the per-scenario simulation loop always terminates: it performs at most
\* int(duration_s / 0.5) ticks and begins no tick once the elapsed time has
\* reached duration_s, so the number of recorded decisions never exceeds
\* agent_count times the maximum step count. Termination is stated by a measure:
\* StepsLeft(w) is a natural number that every step of worker w makes smaller, so
\* no worker can take steps for ever.
StepsInTick == 1 + 7 * cfg.agent_count
StepsLeft(w) ==
    LET r    == wk[w]
        full == 1 + MaxSteps * StepsInTick
        rest == 1 + (MaxSteps - r.step_count - 1) * StepsInTick
        pos  == CASE r.pc = "success" -> 6 [] r.pc = "travel" -> 5 [] r.pc = "pathlen" -> 4
                  [] r.pc = "buy" -> 3 [] r.pc = "base" -> 2 [] OTHER -> 1
    IN  CASE r.pc \in {"done", "failed"} -> 0
          [] r.pc = "queued" -> full + cfg.agent_count + 2
          [] r.pc = "seed" -> full + cfg.agent_count + 1
          [] r.pc = "roles" -> full + cfg.agent_count - Len(r.agents)
          [] r.pc = "tick" -> 1 + (MaxSteps - r.step_count) * StepsInTick
          [] r.pc = "choose" -> rest + 7 * cfg.agent_count - Len(r.decisions)
          [] OTHER -> rest + 6 * (cfg.agent_count - r.di) + pos
C25_LoopTerminates ==
    /\ [](\A w \in Workers :
            /\ wk[w].step_count <= MaxSteps
            /\ StepsLeft(w) >= 0
            /\ Started(w) =>
                  SumTo(AggOf(w).decisions, AggOf(w).bins) <= cfg.agent_count * MaxSteps)
    /\ [][\A w \in Workers :
            /\ (wk[w].pc = "tick" /\ wk'[w].pc \in {"tick", "choose"} /\ wk'[w] # wk[w])
                  => RLt(wk'[w].elapsed, cfg.duration_s)
            /\ wk'[w] # wk[w] => StepsLeft(w)' < StepsLeft(w)]_vars
\* C25 (its case): a worker with an agent returned after one tick of the two its
\* step limit allows, because the clock had reached duration_s
C25_StoppedByClock ==
    \E w \in Workers :
        /\ wk[w].pc = "done" /\ wk[w].agents # <<>>
        /\ wk[w].step_count = 1 /\ MaxSteps >= 2
        /\ SumTo(AggOf(w).decisions, AggOf(w).bins) = Len(wk[w].agents)

\* C26: a poi_update is applied to exactly the POIs for which every key of match
\* equals the POI's attribute: on such a POI a 'tags' value is merged key by key
\* into the tags it has (its other tag keys kept) and every other key of set is
\* overwritten; a POI that does not match is left unchanged in every field.
UpdatedAs(p, q, set) ==
    /\ DOMAIN q = DOMAIN p \cup DOMAIN set
    /\ \A x \in DOMAIN q :
          IF x \notin DOMAIN set THEN q[x] = p[x]
          ELSE IF x # "tags" THEN q[x] = set[x]
          ELSE LET old == IF "tags" \in DOMAIN p THEN p.tags ELSE NoTags
               IN  /\ DOMAIN q.tags = DOMAIN old \cup DOMAIN set.tags
                   /\ \A t \in DOMAIN q.tags :
                         q.tags[t] = IF t \in DOMAIN set.tags THEN set.tags[t] ELSE old[t]
C26_UpdateFrame ==
    [][(ed # <<>> /\ ed.pc = "run" /\ ed'.ui = ed.ui + 1) =>
          LET upd == ed.sc.poi_update[ed.ui]
          IN  /\ Len(ed'.pois) = Len(ed.pois)
              /\ \A k \in 1..Len(ed.pois) :
                    IF \A x \in DOMAIN upd.match :
                          x \in DOMAIN ed.pois[k] /\ ed.pois[k][x] = upd.match[x]
                    THEN UpdatedAs(ed.pois[k], ed'.pois[k], upd.set)
                    ELSE ed'.pois[k] = ed.pois[k]]_vars
\* C26 (its case): the last update merged tags into a POI that keeps a tag key
\* of its own, overwrote nothing else of it, and left another POI alone
C26_TagsMerged ==
    /\ ed # <<>> /\ ed.pc \in {"run", "done"} /\ ed.ui > 1
    /\ LET upd == ed.sc.poi_update[ed.ui - 1]
           hit == ed.trace[Len(ed.trace)][3]
       IN  /\ DOMAIN upd.set = {"tags"}
           /\ \E k \in hit : DOMAIN ed.pois[k].tags \ DOMAIN upd.set.tags # {}
           /\ \E k \in 1..Len(ed.pois) : k \notin hit

\* NEED_TO_CATEGORY, as the table the specification lists
NeedTable ==
    [n \in {"hunger", "caffeine", "groceries", "health", "education", "leisure", "social"} |->
        CASE n = "hunger"    -> "restaurant"
          [] n = "caffeine"  -> "cafe"
          [] n = "groceries" -> "grocery"
          [] n = "health"    -> "pharmacy"
          [] n = "education" -> "education"
          [] n = "leisure"   -> "retail"
          [] n = "social"    -> "cafe"]

\* the entries of a needs map that no other entry exceeds
Highest(needs) ==
    {j \in 1..Len(needs) : \A i \in 1..Len(needs) : needs[i][2] <= needs[j][2]}

StepCost(cost, a, b) ==
    (IF a[1] # b[1] /\ a[2] # b[2] THEN 1414 ELSE 1000) * cost[b[1]][b[2]]

\* the total cost of a path
RECURSIVE PathCost(_, _, _)
PathCost(cost, p, k) ==
    IF k >= Len(p) THEN 0 ELSE StepCost(cost, p[k], p[k + 1]) + PathCost(cost, p, k + 1)

\* D holds <<cell, least cost found>> for the cells reached so far; one more
\* 8-connected step over walkable cells is tried from each, until nothing improves
RECURSIVE MinCosts(_, _, _)
MinCosts(cost, walkable, D) ==
    LET cands(c) == {p[2] : p \in {q \in D : q[1] = c}} \cup
                    {p[2] + StepCost(cost, p[1], c) : p \in {q \in D : Cheb(q[1], c) = 1}}
        E == {<<c, CHOOSE v \in cands(c) : \A u \in cands(c) : v <= u>> :
                 c \in {r \in WalkableCells(walkable) : cands(r) # {}}}
    IN  IF E = D THEN D ELSE MinCosts(cost, walkable, E)

\* the least total cost of an 8-connected walkable path from a to b
MinPathCost(cost, walkable, a, b) ==
    LET D == MinCosts(cost, walkable, {<<a, 0>>})
    IN  IF \E p \in D : p[1] = b THEN (CHOOSE p \in D : p[1] = b)[2] ELSE Inf

\* C28: on a grid whose walkable cells all cost at least 1, the path astar
\* returns has the least total cost of all 8-connected walkable paths from start
\* to goal, a step into cell n costing cost[n] when straight and 1.414 cost[n]
\* when diagonal.
C28_PathIsCheapest ==
    (/\ AStarReturned
     /\ fn.result # None
     /\ \A c \in WalkableCells(fn.walkable) : fn.cost[c[1]][c[2]] >= 1)
    => PathCost(fn.cost, fn.result[1], 1) =
          MinPathCost(fn.cost, fn.walkable, fn.start, fn.goal)
\* C28 (its case): astar returned a path that is cheapest though a path of fewer
\* steps joins the two cells over the walkable cells of a grid of varied costs
C28_DetourCheaper ==
    /\ AStarReturned
    /\ fn.result # None
    /\ \E c \in WalkableCells(fn.walkable), d \in WalkableCells(fn.walkable) :
          fn.cost[c[1]][c[2]] # fn.cost[d[1]][d[2]]
    /\ \E mid \in WalkableCells(fn.walkable) :
          /\ Cheb(fn.start, mid) = 1 /\ Cheb(mid, fn.goal) = 1
          /\ Len(fn.result[1]) > 3
          /\ PathCost(fn.cost, fn.result[1], 1) <
                PathCost(fn.cost, <<fn.start, mid, fn.goal>>, 1)

\* C29: a /decide request that overlaps an /end_run request for its run still
\* completes, without raising and with one decision per requested agent, and the
\* decisions count /end_run writes is the number of decisions of the /decide
\* requests that completed for the run before it was ended.
C29_DecideSurvivesEndRun ==
    /\ \A i \in 1..Len(srv.reqs) :
          /\ srv.reqs[i].pc # "raised"
          /\ srv.reqs[i].pc = "returned" => srv.reqs[i].out = srv.reqs[i].n
    /\ \A r \in RunIds :
          srv.summary[r] # None => srv.summary[r][1] = srv.endedAt[r]

\* the sum of the totals and the sum of the counts of a cat_time map over the
\* categories S
RECURSIVE CatTimeSum(_, _)
CatTimeSum(ct, S) ==
    IF S = {} THEN <<R(0), 0>>
    ELSE LET c    == CHOOSE x \in S : TRUE
             rest == CatTimeSum(ct, S \ {c})
         IN  <<RAdd(ct[c][1], rest[1]), ct[c][2] + rest[2]>>

\* the sum of a per-bin vector of floats
RECURSIVE RSumTo(_, _)
RSumTo(f, n) == IF n = 0 THEN R(0) ELSE RAdd(f[n - 1], RSumTo(f, n - 1))

\* the travel times of the arrivals among the calls numbered in I, summed exactly
RECURSIVE TravelFed(_)
TravelFed(I) ==
    IF I = {} THEN R(0)
    ELSE LET i == CHOOSE x \in I : TRUE
         IN  RAdd(IF pm.events[i].kind = "arrival" THEN pm.events[i].travel ELSE R(0),
                  TravelFed(I \ {i}))

RECURSIVE RPow(_, _)
RPow(q, n) == IF n = 0 THEN R(1) ELSE RMul(q, RPow(q, n - 1))

\* what the roundings of n float additions can move the two sums apart: each
\* addition is off by at most 2^-MantissaBits of its result
RoundingSlack(n, total) ==
    RMul(R(2), RMul(RSub(RPow(RAdd(R(1), <<1, Pow2(MantissaBits)>>), n), R(1)), total))

RAbsDiff(a, b) == IF RLt(a, b) THEN RSub(b, a) ELSE RSub(a, b)

\* the aggregators of the two sides with the calls made on each
PmSides ==
    { [agg |-> pm.a, fed |-> 1..pm.ka],
      [agg |-> pm.b, fed |-> {pm.perm[i] : i \in 1..pm.kb}] }

CountsAgree(a) == CatTimeSum(a.cat_time, DOMAIN a.cat_time)[2] = SumTo(a.arrivals, a.bins)

\* C30 (as stated): in every aggregator state the counts of cat_time sum to the
\* arrivals of all bins and the per-category travel-time totals sum to the
\* travel_time of all bins.
C30_CatTimeExact ==
    \A s \in PmSides :
        /\ CountsAgree(s.agg)
        /\ CatTimeSum(s.agg.cat_time, DOMAIN s.agg.cat_time)[1] =
              RSumTo(s.agg.travel_time, s.agg.bins)

\* C30 (amended): in every aggregator state the counts of cat_time sum to the
\* arrivals of all bins; the per-category travel-time totals and the per-bin
\* travel_time are float sums of the same travel times grouped differently, so
\* their sums agree up to the rounding of the additions (after n arrivals they
\* differ by at most 2((1 + u)^n - 1) times the exact total, u the unit
\* roundoff); record_decision and record_purchase leave arrivals, walk_cells,
\* travel_time and cat_time unchanged.
ArrivalFieldsKept(a, b) ==
    /\ b.arrivals = a.arrivals
    /\ b.walk_cells = a.walk_cells
    /\ b.travel_time = a.travel_time
    /\ b.cat_time = a.cat_time
C30_CatTimeAgrees ==
    /\ [](pm # <<>> =>
            \A s \in PmSides :
                /\ CountsAgree(s.agg)
                /\ RLe(RAbsDiff(CatTimeSum(s.agg.cat_time, DOMAIN s.agg.cat_time)[1],
                                RSumTo(s.agg.travel_time, s.agg.bins)),
                       RoundingSlack(SumTo(s.agg.arrivals, s.agg.bins), TravelFed(s.fed))))
    /\ [][/\ (pm'.ka = pm.ka + 1 /\ pm.events[pm.ka + 1].kind # "arrival")
               => ArrivalFieldsKept(pm.a, pm'.a)
          /\ (pm'.kb = pm.kb + 1 /\ pm.events[pm.perm[pm.kb + 1]].kind # "arrival")
               => ArrivalFieldsKept(pm.b, pm'.b)]_vars
\* C30 (its case): after three arrivals of two categories in two bins the two
\* sums of travel times differ by a rounding
C30_RoundedApart ==
    /\ pm # <<>>
    /\ pm.ka = 3
    /\ Cardinality(DOMAIN pm.a.cat_time) = 2
    /\ \A i \in 0..(pm.a.bins - 1) : pm.a.arrivals[i] > 0
    /\ CatTimeSum(pm.a.cat_time, DOMAIN pm.a.cat_time)[1] #
          RSumTo(pm.a.travel_time, pm.a.bins)

====
